---------------------------- MODULE Spec2Model ----------------------------
(***************************************************************************)
(* A model of the prefix provisioning engine of proton.py: CompatData      *)
(* (setup_prefix, upgrade_pfx, copy_pfx, update_builtin_libs,              *)
(* remove_tracked_files, migrate_user_paths, create_fonts_symlinks) and    *)
(* the helpers it calls (file_is_wine_builtin_dll, try_copy, try_copyfile, *)
(* merge_user_dir, makedirs, getmtimestr).                                  *)
(*                                                                         *)
(* The prefix (compatdata/pfx/) is a function from relative paths to       *)
(* nodes.  The three bookkeeping files of compatdata/ (version,            *)
(* config_info, tracked_files) are fields of the disk record.  The         *)
(* runtime installation, the Steam client directory and the default        *)
(* prefix (template) lie outside the instance and are read through the     *)
(* environment record.                                                     *)
(***************************************************************************)
EXTENDS Integers, Sequences, FiniteSets, TLC

(***************************************************************************)
(* Paths below pfx/.  A path is its string relative to pfx/, without a     *)
(* trailing slash; ROOT is pfx/ itself.                                    *)
(***************************************************************************)
ROOT == ""
DOSD == "dosdevices"
DRC == "drive_c"
WIN == "drive_c/windows"
S32 == "drive_c/windows/system32"
WOW == "drive_c/windows/syswow64"
FONTS == "drive_c/windows/Fonts"
NETD == "drive_c/windows/Microsoft.NET"
PF86 == "drive_c/Program Files (x86)"
STEAMD == "drive_c/Program Files (x86)/Steam"
VRC == "drive_c/vrclient"
VRB == "drive_c/vrclient/bin"
OXR == "drive_c/openxr"
USERS == "drive_c/users"
SU == "drive_c/users/steamuser"
LS == "drive_c/users/steamuser/Local Settings"
LSAD == "drive_c/users/steamuser/Local Settings/Application Data"
LSADB == "drive_c/users/steamuser/Local Settings/Application Data BACKUP"
AD == "drive_c/users/steamuser/Application Data"
ADB == "drive_c/users/steamuser/Application Data BACKUP"
APPD == "drive_c/users/steamuser/AppData"
APPL == "drive_c/users/steamuser/AppData/Local"
APPR == "drive_c/users/steamuser/AppData/Roaming"
MYD == "drive_c/users/steamuser/My Documents"
MYDB == "drive_c/users/steamuser/My Documents BACKUP"
DOCS == "drive_c/users/steamuser/Documents"

\* <<child, parent>> for every modelled path but ROOT
Edges ==
  { <<"user.reg", ROOT>>, <<"system.reg", ROOT>>, <<"system.reg.new", ROOT>>,
    <<"system.reg.old", ROOT>>, <<"system.reg.7f.old", ROOT>>, <<DOSD, ROOT>>, <<DRC, ROOT>>,
    <<"dosdevices/c:", DOSD>>, <<"dosdevices/z:", DOSD>>, <<"dosdevices/s:", DOSD>>,
    <<"drive_c/save.dat", DRC>>, <<WIN, DRC>>, <<PF86, DRC>>, <<VRC, DRC>>,
    <<OXR, DRC>>, <<USERS, DRC>>,
    <<S32, WIN>>, <<WOW, WIN>>, <<FONTS, WIN>>, <<NETD, WIN>>,
    <<"drive_c/windows/system32/kernel32.dll", S32>>,
    <<"drive_c/windows/system32/ntdll.dll", S32>>,
    <<"drive_c/windows/system32/d3d11.dll", S32>>,
    <<"drive_c/windows/system32/dxgi.dll", S32>>,
    <<"drive_c/windows/system32/dxvk_config.dll", S32>>,
    <<"drive_c/windows/system32/nvapi64.dll", S32>>,
    <<"drive_c/windows/system32/openvr_api_dxvk.dll", S32>>,
    <<"drive_c/windows/system32/libvkd3d-shader-1.dll", S32>>,
    <<"drive_c/windows/system32/d3d12.dll", S32>>,
    <<"drive_c/windows/system32/_nvngx.dll", S32>>,
    <<"drive_c/windows/system32/nvngx.dll", S32>>,
    <<"drive_c/windows/system32/amd_ags_x64.dll", S32>>,
    <<"drive_c/windows/system32/mscoree.dll", S32>>,
    <<"drive_c/windows/system32/save.dat", S32>>,
    <<"drive_c/windows/syswow64/kernel32.dll", WOW>>,
    <<"drive_c/windows/syswow64/d3d11.dll", WOW>>,
    <<"drive_c/windows/syswow64/nvapi.dll", WOW>>,
    <<"drive_c/windows/syswow64/amd_ags_x64.dll", WOW>>,
    <<"drive_c/windows/Fonts/arial.ttf", FONTS>>,
    <<"drive_c/windows/Fonts/tahoma.ttf", FONTS>>,
    <<"drive_c/windows/Microsoft.NET/NETFXRepair.exe", NETD>>,
    <<STEAMD, PF86>>,
    <<"drive_c/Program Files (x86)/Steam/steamclient.dll", STEAMD>>,
    <<"drive_c/Program Files (x86)/Steam/steamclient64.dll", STEAMD>>,
    <<"drive_c/Program Files (x86)/Steam/GameOverlayRenderer64.dll", STEAMD>>,
    <<"drive_c/Program Files (x86)/Steam/steam.exe", STEAMD>>,
    <<"drive_c/Program Files (x86)/Steam/Steam.dll", STEAMD>>,
    <<"drive_c/Program Files (x86)/Steam/GameOverlayRenderer.dll", STEAMD>>,
    <<VRB, VRC>>,
    <<"drive_c/vrclient/bin/vrclient.dll", VRB>>,
    <<"drive_c/vrclient/bin/vrclient_x64.dll", VRB>>,
    <<"drive_c/openxr/wineopenxr64.json", OXR>>,
    <<SU, USERS>>,
    <<LS, SU>>, <<LSAD, LS>>, <<LSADB, LS>>,
    <<AD, SU>>, <<ADB, SU>>,
    <<APPD, SU>>, <<APPL, APPD>>, <<APPR, APPD>>,
    <<MYD, SU>>, <<MYDB, SU>>, <<DOCS, SU>>,
    <<"drive_c/users/steamuser/My Documents/f0", MYD>>,
    <<"drive_c/users/steamuser/My Documents/a", MYD>>,
    <<"drive_c/users/steamuser/My Documents/a/f", "drive_c/users/steamuser/My Documents/a">>,
    <<"drive_c/users/steamuser/My Documents/b", MYD>>,
    <<"drive_c/users/steamuser/My Documents/b/g", "drive_c/users/steamuser/My Documents/b">>,
    <<"drive_c/users/steamuser/My Documents BACKUP/f0", MYDB>>,
    <<"drive_c/users/steamuser/My Documents BACKUP/a", MYDB>>,
    <<"drive_c/users/steamuser/My Documents BACKUP/a/f", "drive_c/users/steamuser/My Documents BACKUP/a">>,
    <<"drive_c/users/steamuser/My Documents BACKUP/b", MYDB>>,
    <<"drive_c/users/steamuser/My Documents BACKUP/b/g", "drive_c/users/steamuser/My Documents BACKUP/b">>,
    <<"drive_c/users/steamuser/Documents/f0", DOCS>>,
    <<"drive_c/users/steamuser/Documents/a", DOCS>>,
    <<"drive_c/users/steamuser/Documents/a/f", "drive_c/users/steamuser/Documents/a">>,
    <<"drive_c/users/steamuser/Documents/b", DOCS>>,
    <<"drive_c/users/steamuser/Documents/b/g", "drive_c/users/steamuser/Documents/b">> }

Paths == {ROOT} \cup {e[1] : e \in Edges}

Parent == [p \in Paths |-> IF p = ROOT THEN ROOT ELSE (CHOOSE e \in Edges : e[1] = p)[2]]

Children == [p \in Paths |-> {q \in Paths \ {ROOT} : Parent[q] = p}]

\* the directories above p, up to ROOT
RECURSIVE AncestorsOf(_)
AncestorsOf(p) == IF p = ROOT THEN {} ELSE {Parent[p]} \cup AncestorsOf(Parent[p])

Ancestors == [p \in Paths |-> AncestorsOf(p)]

\* p and everything below it
Subtree == [p \in Paths |-> {q \in Paths : q = p \/ p \in Ancestors[q]}]

(***************************************************************************)
(* Nodes.  k: none | dir | file | link.  c: a file's content, a link's     *)
(* target string.  w: a file's owner write bit.  t: the lines of a text    *)
(* file the engine parses (system.reg), empty for every other node.        *)
(***************************************************************************)
NONE == [k |-> "none", c |-> "", w |-> FALSE, t |-> <<>>]
DIR == [k |-> "dir", c |-> "", w |-> TRUE, t |-> <<>>]
File(c, w) == [k |-> "file", c |-> c, w |-> w, t |-> <<>>]
Text(c, lines) == [k |-> "file", c |-> c, w |-> TRUE, t |-> lines]
Link(tgt) == [k |-> "link", c |-> tgt, w |-> FALSE, t |-> <<>>]


(***************************************************************************)
(* The world outside the instance, as far as setup_prefix reads it.  An    *)
(* environment record x holds:                                             *)
(*   wined3d, nvapi : the compat_config flags read at lines 670-673        *)
(*   gamedrive      : "off" | "nolib" | "lib" (flag unset; set without a   *)
(*                    library dir; set with one), lines 1015-1030          *)
(*   tstub          : the generation of the builtin libraries the runtime  *)
(*                    installation ships (their content)                   *)
(*   treg           : the mtime of default_pfx/system.reg                  *)
(*   legacy         : steamdir/legacycompat holds the Steam client files   *)
(*   pdll           : the runtime base dir holds the overlay DLLs          *)
(*   nvidia         : "none" | "full" | "partial" (find_nvidia_wine_dll_dir*)
(*                    result: no dir; dir with both DLLs; dir lacking      *)
(*                    _nvngx.dll)                                          *)
(*   vr             : lib/wine/i386-windows/vrclient.dll is present        *)
(***************************************************************************)
StubContent(v) == IF v = 1 THEN "Wine builtin DLL #1" ELSE "Wine builtin DLL #2"
FakeContent(v) == IF v = 1 THEN "Wine placeholder DLL #1" ELSE "Wine placeholder DLL #2"
RegContent(v) == IF v = 1 THEN "system.reg #1" ELSE "system.reg #2"

\* contents that carry the builtin marker at offset 0x40 (line 69)
MarkedContents ==
  { "Wine builtin DLL #1", "Wine builtin DLL #2",
    "Wine placeholder DLL #1", "Wine placeholder DLL #2" }

\* link targets whose dirname ends with /lib/wine/i386-windows or
\* /lib64/wine/x86_64-windows (lines 60 and 511)
RelBuiltin64 ==
  { "../../../../../lib64/wine/x86_64-windows/kernel32.dll",
    "../../../../../lib64/wine/x86_64-windows/ntdll.dll",
    "../../../../../lib64/wine/x86_64-windows/d3d11.dll",
    "../../../../../lib64/wine/x86_64-windows/dxgi.dll" }
RelBuiltin32 == { "../../../../../lib/wine/i386-windows/d3d11.dll" }
AbsBuiltin ==
  { "/proton/files/lib64/wine/x86_64-windows/kernel32.dll",
    "/proton/files/lib64/wine/x86_64-windows/ntdll.dll",
    "/proton/files/lib64/wine/x86_64-windows/d3d11.dll",
    "/proton/files/lib64/wine/x86_64-windows/dxgi.dll",
    "/proton/files/lib/wine/i386-windows/d3d11.dll" }
\* links into a runtime installation that has since been removed
GoneBuiltin ==
  { "/removed/files/lib64/wine/x86_64-windows/kernel32.dll",
    "/removed/files/lib64/wine/x86_64-windows/amd_ags_x64.dll" }

DirnameIsBuiltinDir(t) == t \in RelBuiltin64 \cup RelBuiltin32 \cup AbsBuiltin \cup GoneBuiltin

\* os.path.normpath(os.path.join(os.path.dirname(src), contents)) for a link of
\* the default prefix, which lies at /proton/files/share/default_pfx/ (line 514)
NormJoin(contents) ==
  CASE contents = "../../../../../lib64/wine/x86_64-windows/kernel32.dll"
         -> "/proton/files/lib64/wine/x86_64-windows/kernel32.dll"
    [] contents = "../../../../../lib64/wine/x86_64-windows/ntdll.dll"
         -> "/proton/files/lib64/wine/x86_64-windows/ntdll.dll"
    [] contents = "../../../../../lib64/wine/x86_64-windows/d3d11.dll"
         -> "/proton/files/lib64/wine/x86_64-windows/d3d11.dll"
    [] contents = "../../../../../lib64/wine/x86_64-windows/dxgi.dll"
         -> "/proton/files/lib64/wine/x86_64-windows/dxgi.dll"
    [] contents = "../../../../../lib/wine/i386-windows/d3d11.dll"
         -> "/proton/files/lib/wine/i386-windows/d3d11.dll"
    [] OTHER -> contents

\* The node at an absolute path outside the instance (symlinks followed).
ExtNode(x, s) ==
  CASE s \in AbsBuiltin -> File(StubContent(x.tstub), FALSE)
    [] s \in GoneBuiltin -> NONE
    [] s = "/" -> DIR
    [] s = "/library" -> DIR
    [] s \in { "/proton/files/share/fonts/LiberationSans-Regular.ttf",
               "/proton/files/share/wine/fonts/tahoma.ttf" } -> File("font", FALSE)
    [] s \in { "/steam/legacycompat/steamclient.dll",
               "/steam/legacycompat/steamclient64.dll",
               "/steam/legacycompat/GameOverlayRenderer64.dll",
               "/steam/legacycompat/SteamService.exe",
               "/steam/legacycompat/Steam.dll" }
         -> IF x.legacy THEN File("steam client", FALSE) ELSE NONE
    [] s \in { "/proton/steamclient64.dll", "/proton/GameOverlayRenderer.dll",
               "/proton/GameOverlayRenderer64.dll" }
         -> IF x.pdll THEN File("proton overlay", FALSE) ELSE NONE
    [] s = "/proton/files/lib/wine/i386-windows/vrclient.dll"
         -> IF x.vr THEN File(StubContent(x.tstub), FALSE) ELSE NONE
    [] s = "/proton/files/lib64/wine/x86_64-windows/vrclient_x64.dll"
         -> File(StubContent(x.tstub), FALSE)
    [] s \in { "/proton/files/lib64/wine/dxvk/openvr_api_dxvk.dll",
               "/proton/files/lib64/wine/dxvk/dxvk_config.dll",
               "/proton/files/lib64/wine/dxvk/d3d11.dll",
               "/proton/files/lib/wine/dxvk/d3d11.dll",
               "/proton/files/lib64/wine/dxvk/dxgi.dll" } -> File("dxvk", FALSE)
    [] s = "/proton/files/lib64/vkd3d/libvkd3d-shader-1.dll" -> File("vkd3d", FALSE)
    [] s = "/proton/files/lib64/wine/vkd3d-proton/d3d12.dll" -> File("vkd3d-proton", FALSE)
    [] s \in { "/proton/files/lib64/wine/nvapi/nvapi64.dll",
               "/proton/files/lib/wine/nvapi/nvapi.dll" } -> File("dxvk-nvapi", FALSE)
    [] s = "/nvidia/wine/nvngx.dll"
         -> IF x.nvidia \in {"full", "partial"} THEN File("nvngx", FALSE) ELSE NONE
    [] s = "/nvidia/wine/_nvngx.dll"
         -> IF x.nvidia = "full" THEN File("nvngx", FALSE) ELSE NONE
    [] OTHER -> NONE

(***************************************************************************)
(* The default prefix (template), g_proton.default_pfx_dir.  Its builtin   *)
(* libraries are relative links into the runtime's library directories;    *)
(* mscoree.dll stands for a placeholder kept as a regular file.            *)
(***************************************************************************)
TemplateNode(x, p) ==
  CASE p \in {ROOT, DOSD, DRC, OXR, WIN, S32, WOW} -> DIR
    [] p = "system.reg" -> File(RegContent(x.treg), TRUE)
    [] p = "user.reg" -> File("user.reg #1", TRUE)
    [] p = "dosdevices/c:" -> Link("../drive_c")
    [] p = "drive_c/openxr/wineopenxr64.json" -> File("wineopenxr64.json", TRUE)
    [] p = "drive_c/windows/system32/d3d11.dll"
         -> Link("../../../../../lib64/wine/x86_64-windows/d3d11.dll")
    [] p = "drive_c/windows/system32/dxgi.dll"
         -> Link("../../../../../lib64/wine/x86_64-windows/dxgi.dll")
    [] p = "drive_c/windows/system32/kernel32.dll"
         -> Link("../../../../../lib64/wine/x86_64-windows/kernel32.dll")
    [] p = "drive_c/windows/system32/ntdll.dll"
         -> Link("../../../../../lib64/wine/x86_64-windows/ntdll.dll")
    [] p = "drive_c/windows/system32/mscoree.dll" -> File(FakeContent(x.tstub), TRUE)
    [] p = "drive_c/windows/syswow64/d3d11.dll"
         -> Link("../../../../../lib/wine/i386-windows/d3d11.dll")
    [] OTHER -> NONE

\* what a path of the template resolves to, its links followed
TemplateResolved(x, p) ==
  LET n == TemplateNode(x, p) IN
  CASE n.k # "link" -> n
    [] n.c = "../drive_c" -> DIR
    [] OTHER -> ExtNode(x, NormJoin(n.c))

\* os.walk(default_pfx_dir), top down: each directory visited, then the links to
\* directories among its entries (dirs), then its other entries (files)
TemplateWalk ==
  << [t |-> "dir", p |-> ROOT],
     [t |-> "file", p |-> "system.reg"],
     [t |-> "file", p |-> "user.reg"],
     [t |-> "dir", p |-> DOSD],
     [t |-> "dirlink", p |-> "dosdevices/c:"],
     [t |-> "dir", p |-> DRC],
     [t |-> "dir", p |-> OXR],
     [t |-> "file", p |-> "drive_c/openxr/wineopenxr64.json"],
     [t |-> "dir", p |-> WIN],
     [t |-> "dir", p |-> S32],
     [t |-> "file", p |-> "drive_c/windows/system32/d3d11.dll"],
     [t |-> "file", p |-> "drive_c/windows/system32/dxgi.dll"],
     [t |-> "file", p |-> "drive_c/windows/system32/kernel32.dll"],
     [t |-> "file", p |-> "drive_c/windows/system32/mscoree.dll"],
     [t |-> "file", p |-> "drive_c/windows/system32/ntdll.dll"],
     [t |-> "dir", p |-> WOW],
     [t |-> "file", p |-> "drive_c/windows/syswow64/d3d11.dll"] >>

(***************************************************************************)
(* Path queries on the instance.  fs maps Paths to nodes.  A link of the   *)
(* instance resolves inside the instance when its target is one of the     *)
(* relative redirects the engine writes, and outside it otherwise.         *)
(***************************************************************************)
\* the instance path a relative link at p with target t names, or "?" when t
\* leads outside the instance
InsideTarget(p, t) ==
  CASE p = "dosdevices/c:" /\ t = "../drive_c" -> DRC
    [] p = LSAD /\ t = "../AppData/Local" -> APPL
    [] p = AD /\ t = "./AppData/Roaming" -> APPR
    [] p = MYD /\ t = "./Documents" -> DOCS
    [] t = "/compat/pfx/drive_c/users/steamuser/My Documents" -> MYD
    [] t = "/compat/pfx/drive_c/users/steamuser/Application Data" -> AD
    [] t = "/compat/pfx/drive_c/users/steamuser/Local Settings/Application Data" -> LSAD
    [] OTHER -> "?"

RECURSIVE ResolveN(_, _, _, _)
ResolveN(x, fs, p, fuel) ==
  LET n == fs[p] IN
  IF n.k # "link" THEN n
  ELSE IF fuel = 0 THEN NONE
  ELSE LET q == InsideTarget(p, n.c) IN
       IF q = "?" THEN ExtNode(x, n.c) ELSE ResolveN(x, fs, q, fuel - 1)

\* os.stat: the node a path leads to (NONE for a dangling or looping link)
Resolve(x, fs, p) == ResolveN(x, fs, p, 2)

Lexists(fs, p) == fs[p].k # "none"
Islink(fs, p) == fs[p].k = "link"
Exists(x, fs, p) == Resolve(x, fs, p).k # "none"
Isfile(x, fs, p) == Resolve(x, fs, p).k = "file"
Isdir(x, fs, p) == Resolve(x, fs, p).k = "dir"

\* file_is_wine_builtin_dll(path) for a path of the instance
FileIsWineBuiltinDll(x, fs, p) ==
  IF Islink(fs, p) /\ DirnameIsBuiltinDir(fs[p].c) THEN TRUE
  ELSE IF ~Exists(x, fs, p) THEN FALSE
  ELSE LET n == Resolve(x, fs, p) IN
       n.k = "file" /\ n.c \in MarkedContents

\* file_is_wine_builtin_dll(path) for a path of the default prefix
TemplateIsWineBuiltinDll(x, p) ==
  LET n == TemplateNode(x, p) IN
  IF n.k = "link" /\ DirnameIsBuiltinDir(n.c) THEN TRUE
  ELSE LET r == TemplateResolved(x, p) IN
       r.k = "file" /\ r.c \in MarkedContents

(***************************************************************************)
(* Filesystem calls.  Each returns [ok, fs]: ok is FALSE where Python      *)
(* raises OSError (or a subclass), and fs is then unchanged.               *)
(***************************************************************************)
Put(fs, p, n) == [fs EXCEPT ![p] = n]

IsEmptyDir(fs, p) == fs[p].k = "dir" /\ \A q \in Children[p] : fs[q].k = "none"

\* every directory above p is a directory
ParentsAreDirs(fs, p) == \A a \in Ancestors[p] : fs[a].k = "dir"

\* os.makedirs(p): creates p and the missing directories above it
OsMakedirs(fs, p) ==
  IF Lexists(fs, p) \/ \E a \in Ancestors[p] : fs[a].k \in {"file", "link"}
  THEN [ok |-> FALSE, fs |-> fs]
  ELSE [ok |-> TRUE,
        fs |-> [q \in Paths |-> IF q = p \/ (q \in Ancestors[p] /\ fs[q].k = "none")
                                THEN DIR ELSE fs[q]]]

\* makedirs(path), lines 73-78: os.makedirs with OSError swallowed
Makedirs(fs, p) == OsMakedirs(fs, p).fs

\* os.remove / os.unlink
OsRemove(fs, p) ==
  IF fs[p].k \in {"file", "link"} /\ ParentsAreDirs(fs, p)
  THEN [ok |-> TRUE, fs |-> Put(fs, p, NONE)]
  ELSE [ok |-> FALSE, fs |-> fs]

\* a removal that takes a directory with what it holds
OsRmdirTree(fs, p) ==
  IF fs[p].k = "dir"
  THEN [ok |-> TRUE, fs |-> [q \in Paths |-> IF q \in Subtree[p] THEN NONE ELSE fs[q]]]
  ELSE [ok |-> FALSE, fs |-> fs]

\* os.rmdir
OsRmdir(fs, p) ==
  IF IsEmptyDir(fs, p)
  THEN [ok |-> TRUE, fs |-> Put(fs, p, NONE)]
  ELSE [ok |-> FALSE, fs |-> fs]

\* shutil.rmtree
Rmtree(fs, p) ==
  IF fs[p].k = "dir"
  THEN [ok |-> TRUE, fs |-> [q \in Paths |-> IF q \in Subtree[p] THEN NONE ELSE fs[q]]]
  ELSE [ok |-> FALSE, fs |-> fs]

\* os.symlink(target, p)
OsSymlink(fs, t, p) ==
  IF ~Lexists(fs, p) /\ ParentsAreDirs(fs, p)
  THEN [ok |-> TRUE, fs |-> Put(fs, p, Link(t))]
  ELSE [ok |-> FALSE, fs |-> fs]

\* the path q of the tree at a, seen in the tree at b (a legacy directory and
\* its BACKUP name, or a legacy directory and its modern destination)
Rebase(a, b, q) ==
  CASE q = a -> b
    [] a = MYD /\ b = MYDB /\ q = "drive_c/users/steamuser/My Documents/f0"
         -> "drive_c/users/steamuser/My Documents BACKUP/f0"
    [] a = MYD /\ b = MYDB /\ q = "drive_c/users/steamuser/My Documents/a"
         -> "drive_c/users/steamuser/My Documents BACKUP/a"
    [] a = MYD /\ b = MYDB /\ q = "drive_c/users/steamuser/My Documents/a/f"
         -> "drive_c/users/steamuser/My Documents BACKUP/a/f"
    [] a = MYD /\ b = MYDB /\ q = "drive_c/users/steamuser/My Documents/b"
         -> "drive_c/users/steamuser/My Documents BACKUP/b"
    [] a = MYD /\ b = MYDB /\ q = "drive_c/users/steamuser/My Documents/b/g"
         -> "drive_c/users/steamuser/My Documents BACKUP/b/g"
    [] a = MYD /\ b = DOCS /\ q = "drive_c/users/steamuser/My Documents/f0"
         -> "drive_c/users/steamuser/Documents/f0"
    [] a = MYD /\ b = DOCS /\ q = "drive_c/users/steamuser/My Documents/a"
         -> "drive_c/users/steamuser/Documents/a"
    [] a = MYD /\ b = DOCS /\ q = "drive_c/users/steamuser/My Documents/a/f"
         -> "drive_c/users/steamuser/Documents/a/f"
    [] a = MYD /\ b = DOCS /\ q = "drive_c/users/steamuser/My Documents/b"
         -> "drive_c/users/steamuser/Documents/b"
    [] a = MYD /\ b = DOCS /\ q = "drive_c/users/steamuser/My Documents/b/g"
         -> "drive_c/users/steamuser/Documents/b/g"

\* os.rename(a, b) of a directory a: b may be absent or an empty directory
OsRenameDir(fs, a, b) ==
  IF fs[a].k = "dir" /\ (fs[b].k = "none" \/ IsEmptyDir(fs, b))
  THEN [ok |-> TRUE,
        fs |-> [q \in Paths |->
                  IF q \in Subtree[a] THEN NONE
                  ELSE IF q \in Subtree[b]
                       THEN LET src == {r \in Subtree[a] : Rebase(a, b, r) = q}
                            IN IF src = {} THEN NONE ELSE fs[CHOOSE r \in src : TRUE]
                       ELSE fs[q]]]
  ELSE [ok |-> FALSE, fs |-> fs]

(***************************************************************************)
(* Version tags.  A tag is the sequence of the tokens of its string:       *)
(* "6.20-GE-1" is <<"6", ".", "20", "-", "GE", "-", "1">>.                 *)
(***************************************************************************)
CURRENT_PREFIX_VERSION == <<"6", ".", "20", "-", "GE", "-", "1">>

\* str.split(sep): the pieces between the separators
RECURSIVE SplitFrom(_, _, _, _)
SplitFrom(v, sep, i, cur) ==
  IF i > Len(v) THEN <<cur>>
  ELSE IF v[i] = sep THEN <<cur>> \o SplitFrom(v, sep, i + 1, <<>>)
  ELSE SplitFrom(v, sep, i + 1, Append(cur, v[i]))

Split(v, sep) == SplitFrom(v, sep, 1, <<>>)

Digits ==
  ("0" :> 0) @@ ("1" :> 1) @@ ("2" :> 2) @@ ("3" :> 3) @@ ("4" :> 4) @@ ("5" :> 5)
  @@ ("6" :> 6) @@ ("7" :> 7) @@ ("11" :> 11) @@ ("20" :> 20)

\* int(s) succeeds
IsInt(piece) == Len(piece) = 1 /\ piece[1] \in DOMAIN Digits
IntOf(piece) == Digits[piece[1]]

(***************************************************************************)
(* Copies.  Each returns [fs, raised]: raised names the exception that     *)
(* leaves the call ("" when the call returns).  fk is the permission       *)
(* failure the call meets, if any:                                         *)
(*   "rm"     os.remove of the old destination fails with EPERM            *)
(*   "open"   creating the destination fails with EPERM                    *)
(*   "chmod"  the content is written and setting the mode fails with EPERM *)
(*   "eacces" creating the destination fails with EACCES                   *)
(***************************************************************************)
Done(fs) == [fs |-> fs, raised |-> ""]
Raised(fs, e) == [fs |-> fs, raised |-> e]

\* the destination can be created: its directory exists
CanCreate(fs, dst) == ParentsAreDirs(fs, dst)

\* lines 114-120 and 148-150: the old destination is removed if there is one
Unlinked(fs, dst) == IF Lexists(fs, dst) THEN OsRemove(fs, dst).fs ELSE fs

\* shutil.copy / shutil.copyfile of the node src to dst, and the chmod of
\* lines 127-129 where keep is FALSE; a failure with EPERM is swallowed by the
\* handlers of lines 138-142 and 153-158
ShutilCopy(fs, src, dst, fk, keep) ==
  IF src.k # "file" \/ ~CanCreate(fs, dst) THEN Raised(fs, "FileNotFoundError")
  ELSE IF fk = "open" THEN Done(fs)
  ELSE IF fk = "eacces" THEN Raised(fs, "PermissionError")
  ELSE IF fk = "chmod" \/ keep THEN Done(Put(fs, dst, src))
  ELSE Done(Put(fs, dst, [src EXCEPT !.w = TRUE]))

\* try_copyfile(src, dst), lines 144-158; src is the node src resolves to.
\* shutil.copyfile gives the new file the default mode.
TryCopyfile(x, fs, src, dst, fk) ==
  IF Isdir(x, fs, dst) THEN Raised(fs, "IsADirectoryError")
  ELSE IF Lexists(fs, dst) /\ fk = "rm" THEN Done(fs)
  ELSE ShutilCopy(Unlinked(fs, dst), [src EXCEPT !.w = TRUE], dst, fk, TRUE)

\* FileNotFoundError is swallowed for every copy
OptionalAlways(r, optional) ==
  IF r.raised = "FileNotFoundError" THEN Done(r.fs) ELSE r

\* lines 132-136: FileNotFoundError is swallowed for an optional copy
Optional(r, optional) ==
  IF optional /\ r.raised = "FileNotFoundError" THEN Done(r.fs) ELSE r

\* try_copy(src, dst, optional=...), lines 111-142, with add_write_perm and
\* follow_symlinks as defaulted.  dst is the file written; into says that the
\* caller passed its directory (dst = dir + "/") and not the file name.
TryCopy(x, fs, src, dst, into, optional, fk) ==
  IF into /\ ~Isdir(x, fs, Parent[dst])
  THEN IF src.k # "file"
       THEN Optional(Raised(fs, "FileNotFoundError"), optional)
       ELSE Raised(fs, "IsADirectoryError")
  ELSE IF ~into /\ Isdir(x, fs, dst)
  THEN IF src.k # "file"
       THEN Optional(Raised(fs, "FileNotFoundError"), optional)
       ELSE Done(fs)
  ELSE IF Lexists(fs, dst) /\ fk = "rm" THEN Done(fs)
  ELSE Optional(ShutilCopy(Unlinked(fs, dst), src, dst, fk, FALSE), optional)

\* the contents of the template's link, as they are
LinkContentsRaw(c) == c

\* lines 510-514: the link's target, made absolute for a builtin library
LinkContents(c) == IF DirnameIsBuiltinDir(c) THEN NormJoin(c) ELSE c

\* line 518: the outcome of os.symlink as the outcome of a copy
Symlinked(r) == IF r.ok THEN Done(r.fs) ELSE Raised(r.fs, "OSError")

\* pfx_copy(src, dst, dll_copy), lines 508-520; tp is src's path in the template
PfxCopy(x, fs, tp, dst, dll_copy, fk) ==
  IF TemplateNode(x, tp).k = "link" /\ ~dll_copy
  THEN Symlinked(OsSymlink(fs, LinkContents(TemplateNode(x, tp).c), dst))
  ELSE TryCopyfile(x, fs, TemplateResolved(x, tp), dst, fk)

\* any(fnmatch.fnmatch(file_, pattern) ...) for the default PROTON_DLL_COPY
\* list (lines 675-867), over the file names of the template
DllCopyMatch(p) == p \in { "drive_c/windows/system32/ntdll.dll" }

(***************************************************************************)
(* The manifest (tracked_files).  A line is the relative path written and  *)
(* whether it was written with a trailing slash (a directory's rel_dir).   *)
(***************************************************************************)
DirLine(p) == [p |-> p, slash |-> p # ROOT]
FileLine(p) == [p |-> p, slash |-> FALSE]

Range(q) == {q[n] : n \in 1..Len(q)}

(***************************************************************************)
(* The machine.  A disk record d holds the instance: fs (pfx/), tracked    *)
(* (tracked_files), version, config (config_info).  A locals record l      *)
(* holds one process's position in setup_prefix and its local variables:   *)
(*   pc, i      position, and index of the loop it is in                   *)
(*   old        old_ver: [none, v]                                         *)
(*   open, buf  tracked_files is open for writing; lines written and not   *)
(*              yet flushed to the file                                    *)
(*   prev       prev_tracked_files                                         *)
(*   sync       the condition of line 894                                  *)
(*   info       prefix_info                                                *)
(*   nc, fault  copies called so far; the copy that meets a permission     *)
(*              failure and the failure it meets ([at, kind])              *)
(*   err        the exception that left setup_prefix, "" if none           *)
(* and, for stating properties, what the run did: m0 (the manifest lines   *)
(* when the run began), made (paths it created or rewrote), wiped (it ran  *)
(* remove_tracked_files), patched (the upgrade patches it applied), s0     *)
(* (pfx/ as update_builtin_libs found it).                                 *)
(***************************************************************************)
R(d, l) == [d |-> d, l |-> l]

Flush(d, l) == IF l.open THEN [d EXCEPT !.tracked.lines = @ \o l.buf] ELSE d

\* an exception leaves setup_prefix: the with-blocks close tracked_files
Raise(d, l, e) ==
  R(Flush(d, l), [l EXCEPT !.pc = "unlock", !.err = e, !.open = FALSE, !.buf = <<>>])

FaultKind(l) == IF l.nc + 1 = l.fault.at THEN l.fault.kind ELSE "none"

\* the statement after a copy r ([fs, raised]): next, or the exception leaves
Copied(r, d, l, next) ==
  IF r.raised # "" THEN Raise([d EXCEPT !.fs = r.fs], l, r.raised)
  ELSE R([d EXCEPT !.fs = r.fs], next)

\* the statement after os.symlink returned r, the directories made before it
\* staying when it fails
Linked(r, d, l, next) ==
  IF r.ok THEN R([d EXCEPT !.fs = r.fs], next)
  ELSE Raise([d EXCEPT !.fs = r.fs], l, "FileNotFoundError")

\* the statement after a filesystem call r ([ok, fs]): next, or e leaves
Called(r, d, l, next, e) ==
  IF r.ok THEN R([d EXCEPT !.fs = r.fs], next) ELSE Raise(d, l, e)

\* lines 641-645
OpReadVer(x, d, l) ==
  R(d, [l EXCEPT !.pc = "upgrade",
                 !.old = IF d.version.ex THEN [none |-> FALSE, v |-> d.version.v]
                         ELSE [none |-> TRUE, v |-> <<>>]])

\* lines 395-398: the four unpackings; ok is FALSE where one raises ValueError
UpgradeParse(old, cur) ==
  LET a == Split(old, "-")
      c == Split(cur, "-")
      bad == [ok |-> FALSE]
  IN IF Len(a) # 2 THEN bad
     ELSE LET b == Split(a[1], ".") IN
          IF Len(b) # 2 \/ Len(c) # 2 THEN bad
          ELSE LET e == Split(c[1], ".") IN
               IF Len(e) # 2 THEN bad
               ELSE [ok |-> TRUE, old_proton_ver |-> a[1], old_prefix_ver |-> a[2],
                     old_maj |-> b[1], old_min |-> b[2],
                     new_maj |-> e[1], new_min |-> e[2]]

\* an equal minor counts as newer
DowngradeCheckOrEqual(v) ==
  IF ~IsInt(v.new_maj) \/ ~IsInt(v.old_maj) THEN "ve"
  ELSE IF IntOf(v.new_maj) < IntOf(v.old_maj) THEN "down"
  ELSE IF IntOf(v.new_maj) = IntOf(v.old_maj)
       THEN IF ~IsInt(v.new_min) \/ ~IsInt(v.old_min) THEN "ve"
            ELSE IF IntOf(v.new_min) <= IntOf(v.old_min) THEN "down" ELSE "no"
       ELSE "no"

\* lines 400-402: "down" (the instance is newer), "no", or "ve" (int() raises)
DowngradeCheck(v) ==
  IF ~IsInt(v.new_maj) \/ ~IsInt(v.old_maj) THEN "ve"
  ELSE IF IntOf(v.new_maj) < IntOf(v.old_maj) THEN "down"
  ELSE IF IntOf(v.new_maj) = IntOf(v.old_maj)
       THEN IF ~IsInt(v.new_min) \/ ~IsInt(v.old_min) THEN "ve"
            ELSE IF IntOf(v.new_min) < IntOf(v.old_min) THEN "down" ELSE "no"
       ELSE "no"

\* lines 425-426: "yes", "no" or "ve"
XinputGuard(v) ==
  IF ~IsInt(v.old_maj) THEN "ve"
  ELSE IF IntOf(v.old_maj) < 4
       THEN IF ~IsInt(v.old_prefix_ver) THEN "ve"
            ELSE IF IntOf(v.old_prefix_ver) < 2 THEN "yes" ELSE "no"
       ELSE IF IntOf(v.old_maj) = 4
            THEN IF ~IsInt(v.old_min) THEN "ve"
                 ELSE IF IntOf(v.old_min) = 11
                      THEN IF ~IsInt(v.old_prefix_ver) THEN "ve"
                           ELSE IF IntOf(v.old_prefix_ver) < 2 THEN "yes" ELSE "no"
                      ELSE "no"
            ELSE "no"

\* lines 452-453: "yes", "no" or "ve"
DdeGuard(v) ==
  IF ~IsInt(v.old_maj) THEN "ve"
  ELSE IF IntOf(v.old_maj) < 6 THEN "yes"
  ELSE IF IntOf(v.old_maj) # 6 THEN "no"
  ELSE IF ~IsInt(v.old_min) THEN "ve"
  ELSE IF IntOf(v.old_min) < 3 THEN "yes"
  ELSE IF IntOf(v.old_min) # 3 THEN "no"
  ELSE IF ~IsInt(v.old_prefix_ver) THEN "ve"
  ELSE IF IntOf(v.old_prefix_ver) < 3 THEN "yes" ELSE "no"

\* a tag without "-" is taken for a newer release
UpgradeDecisionNoDash(old, cur) ==
  IF ~old.none /\ old.v = cur THEN "same"
  ELSE IF old.none THEN "fresh"
  ELSE IF "-" \notin Range(old.v) THEN "wipe"
  ELSE "ve"

\* lines 380-408: the way upgrade_pfx takes, up to the downgrade decision
UpgradeDecision(old, cur) ==
  IF ~old.none /\ old.v = cur THEN "same"
  ELSE IF old.none THEN "fresh"
  ELSE IF "-" \notin Range(old.v) THEN "nodash"
  ELSE LET v == UpgradeParse(old.v, cur) IN
       IF ~v.ok THEN "ve"
       ELSE LET c == DowngradeCheck(v) IN
            IF c = "ve" THEN "ve" ELSE IF c = "down" THEN "wipe" ELSE "patch"

OpUpgrade(x, d, l) ==
  LET way == UpgradeDecision(l.old, CURRENT_PREFIX_VERSION) IN
  R(d, [l EXCEPT !.pc = CASE way = "wipe" -> "up_seed"
                          [] way = "patch" -> "up_37"
                          [] OTHER -> "mkpfx"])

\* the listing proton_3.7_tracked_files that the runtime bundles (line 406)
Proton37Listing ==
  << DirLine(DOSD), DirLine(DRC), DirLine(WIN), DirLine(S32),
     FileLine("system.reg"), FileLine("user.reg"),
     FileLine("drive_c/windows/system32/kernel32.dll"),
     FileLine("drive_c/windows/system32/mscoree.dll") >>

\* os.path.exists(self.prefix_dir + f.strip()) for a manifest line
LineExists(x, fs, ln) ==
  IF ln.slash THEN Isdir(x, fs, ln.p) ELSE Exists(x, fs, ln.p)

\* lines 362-368: the first pass; dirs collects the directories
RECURSIVE RemovePass1(_, _, _, _, _)
RemovePass1(x, fs, lines, n, dirs) ==
  IF n > Len(lines) THEN [fs |-> fs, dirs |-> dirs]
  ELSE LET ln == lines[n] IN
       IF ~LineExists(x, fs, ln) THEN RemovePass1(x, fs, lines, n + 1, dirs)
       ELSE IF ~ln.slash /\ (Isfile(x, fs, ln.p) \/ Islink(fs, ln.p))
            THEN RemovePass1(x, OsRemove(fs, ln.p).fs, lines, n + 1, dirs)
            ELSE RemovePass1(x, fs, lines, n + 1, Append(dirs, ln.p))

\* the first os.rmdir that fails ends the pass
RECURSIVE RemovePass2Abort(_, _, _)
RemovePass2Abort(fs, dirs, n) ==
  IF n > Len(dirs) THEN fs
  ELSE IF OsRmdir(fs, dirs[n]).ok THEN RemovePass2Abort(OsRmdir(fs, dirs[n]).fs, dirs, n + 1)
  ELSE fs

\* lines 369-374: os.rmdir of each, OSError swallowed
RECURSIVE RemovePass2(_, _, _)
RemovePass2(fs, dirs, n) ==
  IF n > Len(dirs) THEN fs
  ELSE RemovePass2(OsRmdir(fs, dirs[n]).fs, dirs, n + 1)

\* the second pass on what the first pass left
RemoveDirs(p1) == RemovePass2(p1.fs, p1.dirs, 1)

\* remove_tracked_files, lines 355-377: [d, raised]
RemoveTrackedFiles(x, d) ==
  IF ~d.tracked.ex THEN [d |-> d, raised |-> ""]
  ELSE [d |-> [d EXCEPT !.fs = RemoveDirs(RemovePass1(x, d.fs, d.tracked.lines, 1, <<>>)),
                        !.tracked = [ex |-> FALSE, lines |-> <<>>],
                        !.version = [ex |-> FALSE, v |-> <<>>]],
        raised |-> IF d.version.ex THEN "" ELSE "FileNotFoundError"]

\* lines 404-406
OpUpSeed(x, d, l) ==
  LET v == UpgradeParse(l.old.v, CURRENT_PREFIX_VERSION) IN
  IF v.old_proton_ver = <<"3", ".", "7">> /\ ~d.tracked.ex
  THEN R([d EXCEPT !.tracked = [ex |-> TRUE, lines |-> Proton37Listing]],
         [l EXCEPT !.pc = "up_wipe", !.nc = @ + 1])
  ELSE R(d, [l EXCEPT !.pc = "up_wipe"])

\* the statement after remove_tracked_files returned r
Wiped(r, l) ==
  IF r.raised # "" THEN Raise(r.d, l, r.raised)
  ELSE R(r.d, [l EXCEPT !.pc = "mkpfx", !.wiped = TRUE])

\* lines 407-408
OpUpWipe(x, d, l) == Wiped(RemoveTrackedFiles(x, d), l)

\* lines 410-415
OpUp37(x, d, l) ==
  LET v == UpgradeParse(l.old.v, CURRENT_PREFIX_VERSION) IN
  IF v.old_proton_ver = <<"3", ".", "7">> /\ v.old_prefix_ver = <<"1">>
       /\ ~Exists(x, d.fs, "drive_c/windows/syswow64/kernel32.dll")
  THEN Called(Rmtree(d.fs, ROOT), d, l, [l EXCEPT !.pc = "mkpfx"], "FileNotFoundError")
  ELSE R(d, [l EXCEPT !.pc = "up_net"])

\* lines 417-422
OpUpNet(x, d, l) ==
  IF Exists(x, d.fs, "drive_c/windows/Microsoft.NET/NETFXRepair.exe")
       /\ FileIsWineBuiltinDll(x, d.fs, "drive_c/windows/system32/mscoree.dll")
  THEN Called(Rmtree(d.fs, NETD), d, l,
              [l EXCEPT !.pc = "up_xinput", !.patched = @ \cup {"net"}], "NotADirectoryError")
  ELSE R(d, [l EXCEPT !.pc = "up_xinput"])

(***************************************************************************)
(* The registry rewrites of upgrade_pfx.  A line of system.reg is the      *)
(* sequence of its tokens; a word that a rewrite renames is a token of its *)
(* own, so that "X" in line and line.replace("X", "X_old") are decided on  *)
(* tokens: X_old still contains X.                                         *)
(***************************************************************************)
Renamed ==
  ("DeviceClasses" :> "DeviceClasses_old")
  @@ ("DeviceClasses_old" :> "DeviceClasses_old_old")
  @@ ("DeviceClasses_old_old" :> "DeviceClasses_old_old_old")
  @@ ("Enum" :> "Enum_old") @@ ("Enum_old" :> "Enum_old_old")
  @@ ("Enum_old_old" :> "Enum_old_old_old")
  @@ ("ddeexec" :> "ddeexec_old") @@ ("ddeexec_old" :> "ddeexec_old_old")
  @@ ("ddeexec_old_old" :> "ddeexec_old_old_old")

\* the tokens that contain the word w
Containing(w) ==
  CASE w = "DeviceClasses" -> {"DeviceClasses", "DeviceClasses_old", "DeviceClasses_old_old"}
    [] w = "Enum" -> {"Enum", "Enum_old", "Enum_old_old"}
    [] w = "ddeexec" -> {"ddeexec", "ddeexec_old", "ddeexec_old_old"}
    [] OTHER -> {w}

HasWord(line, w) == \E n \in 1..Len(line) : line[n] \in Containing(w)

\* line.replace(w, w + "_old")
ReplaceAll(line, w) ==
  [n \in 1..Len(line) |-> IF line[n] \in Containing(w) THEN Renamed[line[n]] ELSE line[n]]

\* lines 430-437: what the xinput rewrite writes for one line (nothing, or a line)
XinputLine(line) ==
  IF line[1] = "[" /\ HasWord(line, "CurrentControlSet") /\ HasWord(line, "IG_")
  THEN IF HasWord(line, "DeviceClasses") THEN <<ReplaceAll(line, "DeviceClasses")>>
       ELSE IF HasWord(line, "Enum") THEN <<ReplaceAll(line, "Enum")>>
       ELSE <<>>
  ELSE <<line>>

\* lines 454-461, each key up to its ddeexec
DeleteKeyHeads ==
  { <<"[Software\\Classes\\htmlfile\\shell\\open\\">>,
    <<"[Software\\Classes\\pdffile\\shell\\open\\">>,
    <<"[Software\\Classes\\xmlfile\\shell\\open\\">>,
    <<"[Software\\Classes\\ftp\\shell\\open\\">>,
    <<"[Software\\Classes\\http\\shell\\open\\">>,
    <<"[Software\\Classes\\https\\shell\\open\\">> }

\* line 462
DdeWb == <<"@=\"C:\\windows\\system32\\winebrowser.exe\"", "-nohome">>

\* lines 471-477: what the ShellExecute-DDE rewrite writes for one line
DdeLine(line) ==
  LET at == {n \in 1..Len(line) : line[n] \in Containing("ddeexec")} IN
  IF at # {} /\ SubSeq(line, 1, (CHOOSE n \in at : \A m \in at : n <= m) - 1) \in DeleteKeyHeads
  THEN LET k == CHOOSE n \in at : \A m \in at : n <= m
       IN [line EXCEPT ![k] = Renamed[line[k]]]
  ELSE IF line = DdeWb
       THEN [n \in 1..Len(line) |-> IF line[n] = "-nohome" THEN "%1" ELSE line[n]]
       ELSE line

RECURSIVE XinputRewrite(_)
XinputRewrite(lines) ==
  IF lines = <<>> THEN <<>> ELSE XinputLine(Head(lines)) \o XinputRewrite(Tail(lines))

DdeRewrite(lines) == [n \in 1..Len(lines) |-> DdeLine(lines[n])]

\* os.rename(a, b) of a file or link a: b is replaced unless it is a directory
OsRenameFile(fs, a, b) ==
  IF fs[a].k \in {"file", "link"} /\ fs[b].k # "dir" /\ ParentsAreDirs(fs, b)
  THEN [ok |-> TRUE, fs |-> [fs EXCEPT ![b] = fs[a], ![a] = NONE]]
  ELSE [ok |-> FALSE, fs |-> fs]

\* lines 428-437 and 469-477: system.reg.new is written from system.reg
RewriteNew(x, d, l, which) ==
  LET src == Resolve(x, d.fs, "system.reg") IN
  IF src.k # "file" THEN Raise(d, l, "FileNotFoundError")
  ELSE IF d.fs["system.reg.new"].k = "dir" THEN Raise(d, l, "IsADirectoryError")
  ELSE R([d EXCEPT !.fs = Put(d.fs, "system.reg.new",
                              Text(src.c, IF which = "xinput" THEN XinputRewrite(src.t)
                                          ELSE DdeRewrite(src.t)))],
         [l EXCEPT !.pc = IF which = "xinput" THEN "xi_old" ELSE "dde_old"])

\* lines 424-426 and 450-453: the guard of a rewrite, then the rewrite
OpRewriteNew(x, d, l, which) ==
  LET v == UpgradeParse(l.old.v, CURRENT_PREFIX_VERSION)
      g == IF which = "xinput" THEN XinputGuard(v) ELSE DdeGuard(v)
      after == IF which = "xinput" THEN "up_dde" ELSE "up_stale"
  IN IF g = "ve" THEN R(d, [l EXCEPT !.pc = "mkpfx"])
     ELSE IF g = "no" THEN R(d, [l EXCEPT !.pc = after])
     ELSE RewriteNew(x, d, l, which)

\* lines 438-442 and 481-488: os.remove in the handler of a failed os.rename
RenameOrRemove(r, fs, p) == IF r.ok THEN r ELSE OsRemove(fs, p)

\* lines 438-442 and 481-488: system.reg is renamed to its backup name, or
\* removed when the rename fails
OpRewriteOld(x, d, l, which) ==
  Called(RenameOrRemove(OsRenameFile(d.fs, "system.reg",
                                     IF which = "xinput" THEN "system.reg.old"
                                     ELSE "system.reg.7f.old"),
                        d.fs, "system.reg"),
         d, l, [l EXCEPT !.pc = IF which = "xinput" THEN "xi_mv" ELSE "dde_mv"],
         "IsADirectoryError")

\* lines 444-448 and 490-494: system.reg.new takes the place of system.reg
OpRewriteMv(x, d, l, which) ==
  R([d EXCEPT !.fs = OsRenameFile(d.fs, "system.reg.new", "system.reg").fs],
    [l EXCEPT !.pc = IF which = "xinput" THEN "up_dde" ELSE "up_stale",
              !.patched = @ \cup {which}])

\* lines 496-501
StaleBuiltins ==
  << "drive_c/windows/system32/amd_ags_x64.dll", "drive_c/windows/syswow64/amd_ags_x64.dll" >>

OpUpStale(x, d, l) ==
  IF l.i > Len(StaleBuiltins) THEN R(d, [l EXCEPT !.pc = "mkpfx", !.i = 1])
  ELSE LET b == StaleBuiltins[l.i] IN
       IF Lexists(d.fs, b) /\ FileIsWineBuiltinDll(x, d.fs, b)
       THEN R([d EXCEPT !.fs = OsRemove(d.fs, b).fs],
              [l EXCEPT !.i = @ + 1, !.patched = @ \cup {"stale"}])
       ELSE R(d, [l EXCEPT !.i = @ + 1])

(***************************************************************************)
(* setup_prefix, step by step.                                             *)
(***************************************************************************)
\* lines 649-651
OpMkpfx(x, d, l) ==
  IF ~Exists(x, d.fs, ROOT)
  THEN R([d EXCEPT !.fs = Makedirs(d.fs, DRC)], [l EXCEPT !.pc = "mkpfx2"])
  ELSE R(d, [l EXCEPT !.pc = "populate"])

\* lines 652-654
OpMkpfx2(x, d, l) ==
  IF ~Exists(x, d.fs, DOSD)
  THEN R([d EXCEPT !.fs = Makedirs(d.fs, DOSD)], [l EXCEPT !.pc = "populate"])
  ELSE R(d, [l EXCEPT !.pc = "populate"])

\* lines 656-657, and line 523: open(tracked_files, "w") truncates the file
OpPopulate(x, d, l) ==
  IF ~Exists(x, d.fs, "user.reg")
  THEN R([d EXCEPT !.tracked = [ex |-> TRUE, lines |-> <<>>]],
         [l EXCEPT !.pc = "cp_item", !.i = 1, !.open = TRUE, !.buf = <<>>])
  ELSE R(d, [l EXCEPT !.pc = "mig_loop", !.i = 1])

\* copy_pfx, lines 524-541: the entry i of the walk is created
OpCpItem(x, d, l) ==
  IF l.i > Len(TemplateWalk)
  THEN R(Flush(d, l), [l EXCEPT !.pc = "mig_loop", !.i = 1, !.open = FALSE, !.buf = <<>>])
  ELSE LET it == TemplateWalk[l.i] IN
       CASE it.t = "dir" ->
              IF ~Lexists(d.fs, it.p)
              THEN Called(OsMakedirs(d.fs, it.p), d, l, [l EXCEPT !.pc = "cp_rec"],
                          "NotADirectoryError")
              ELSE R(d, [l EXCEPT !.i = @ + 1])
         [] it.t = "dirlink" ->
              IF ~Exists(x, d.fs, it.p)
              THEN Copied(PfxCopy(x, d.fs, it.p, it.p, FALSE, "none"), d, l,
                          [l EXCEPT !.i = @ + 1])
              ELSE R(d, [l EXCEPT !.i = @ + 1])
         [] OTHER ->
              IF ~Exists(x, d.fs, it.p)
              THEN Copied(PfxCopy(x, d.fs, it.p, it.p, FALSE, FaultKind(l)), d, l,
                          [l EXCEPT !.pc = "cp_rec",
                                    !.nc = IF TemplateNode(x, it.p).k = "link" THEN @ ELSE @ + 1])
              ELSE R(d, [l EXCEPT !.i = @ + 1])

\* lines 531 and 542: tracked_files.write
OpCpRec(x, d, l) ==
  LET it == TemplateWalk[l.i] IN
  R(d, [l EXCEPT !.pc = "cp_item", !.i = @ + 1,
                 !.buf = Append(@, IF it.t = "dir" THEN DirLine(it.p) ELSE FileLine(it.p))])

\* the rows of migrate_user_paths, lines 609-620, with the BACKUP name of line 631
MigrateRows ==
  << [old |-> LSAD, new |-> APPL, link |-> "../AppData/Local", backup |-> LSADB],
     [old |-> AD, new |-> APPR, link |-> "./AppData/Roaming", backup |-> ADB],
     [old |-> MYD, new |-> DOCS, link |-> "./Documents", backup |-> MYDB] >>

\* no link target is taken to end with the legacy path
EndsWithNothing(t, old) == FALSE

\* os.readlink(new).endswith(old), line 624, old being relative to pfx/
EndsWithOld(t, old) ==
  \/ old = MYD /\ t = "/compat/pfx/drive_c/users/steamuser/My Documents"
  \/ old = AD /\ t = "/compat/pfx/drive_c/users/steamuser/Application Data"
  \/ old = LSAD /\ t = "/compat/pfx/drive_c/users/steamuser/Local Settings/Application Data"

\* os.walk(src), top down, over the directories the model holds below src
MergeWalk(src) ==
  IF src = MYD
  THEN << MYD, "drive_c/users/steamuser/My Documents/a", "drive_c/users/steamuser/My Documents/b" >>
  ELSE << src >>

\* merge_user_dir(src, dst), lines 80-109.  extant says that extant_dirs is not
\* empty: line 109 adds the characters of dst_dir to the list, line 88 then asks
\* whether one of them occurs in the next dst_dir, and every dst_dir begins
\* with the characters of the instance's path.
RECURSIVE MergeUserDir(_, _, _, _, _, _)
MergeUserDir(x, fs, src, dst, n, extant) ==
  IF n > Len(MergeWalk(src)) THEN [fs |-> fs, raised |-> ""]
  ELSE LET src_dir == MergeWalk(src)[n]
           dst_dir == Rebase(src, dst, src_dir)
       IN IF fs[src_dir].k # "dir" \/ extant THEN MergeUserDir(x, fs, src, dst, n + 1, extant)
          ELSE IF ~Exists(x, fs, dst_dir) \/ dst_dir = dst
          THEN LET fs1 == Makedirs(fs, dst_dir)
                   todo == {c \in Children[src_dir] :
                              /\ fs[c].k \in {"file", "link"}
                              /\ ~Exists(x, fs1, Rebase(src, dst, c))}
               IN IF todo # {} /\ ~Isdir(x, fs1, dst_dir)
                  THEN [fs |-> fs1, raised |-> "NotADirectoryError"]
                  ELSE MergeUserDir(x,
                         [q \in Paths |->
                            IF \E c \in todo : Rebase(src, dst, c) = q
                            THEN LET c == CHOOSE c \in todo : Rebase(src, dst, c) = q
                                 IN IF fs[c].k = "file" THEN [fs[c] EXCEPT !.w = TRUE] ELSE fs[c]
                            ELSE fs1[q]],
                         src, dst, n + 1, extant)
          ELSE MergeUserDir(x, fs, src, dst, n + 1, TRUE)

\* lines 622-625
OpMigLoop(x, d, l) ==
  IF l.i > Len(MigrateRows) THEN R(d, [l EXCEPT !.pc = "dos_c", !.i = 1])
  ELSE LET row == MigrateRows[l.i] IN
       IF Lexists(d.fs, row.new) /\ Islink(d.fs, row.new) /\ EndsWithOld(d.fs[row.new].c, row.old)
       THEN R([d EXCEPT !.fs = OsRemove(d.fs, row.new).fs], [l EXCEPT !.pc = "mig_merge"])
       ELSE R(d, [l EXCEPT !.pc = "mig_merge"])

\* lines 629-630
OpMigMerge(x, d, l) ==
  LET row == MigrateRows[l.i] IN
  IF Lexists(d.fs, row.old) /\ ~Islink(d.fs, row.old)
  THEN Copied(MergeUserDir(x, d.fs, row.old, row.new, 1, FALSE), d, l,
              [l EXCEPT !.pc = "mig_rename"])
  ELSE R(d, [l EXCEPT !.pc = "mig_link"])

\* line 631
OpMigRename(x, d, l) ==
  LET row == MigrateRows[l.i] IN
  Called(IF d.fs[row.old].k = "dir" THEN OsRenameDir(d.fs, row.old, row.backup)
         ELSE OsRenameFile(d.fs, row.old, row.backup),
         d, l, [l EXCEPT !.pc = "mig_link"], "OSError")

\* the link is made where the legacy path is absent, and a link found there
\* is left as it is
OpMigLinkAbsent(x, d, l) ==
  LET row == MigrateRows[l.i] IN
  IF ~Lexists(d.fs, row.old)
  THEN Linked(OsSymlink(Makedirs(d.fs, Parent[row.old]), row.link, row.old), d, l,
              [l EXCEPT !.pc = "mig_loop", !.i = @ + 1])
  ELSE R(d, [l EXCEPT !.pc = "mig_loop", !.i = @ + 1])

\* lines 632-637
OpMigLink(x, d, l) ==
  LET row == MigrateRows[l.i] IN
  IF ~Lexists(d.fs, row.old)
  THEN Linked(OsSymlink(Makedirs(d.fs, Parent[row.old]), row.link, row.old), d, l,
              [l EXCEPT !.pc = "mig_loop", !.i = @ + 1])
  ELSE IF Islink(d.fs, row.old) /\ d.fs[row.old].c # row.link
  THEN R([d EXCEPT !.fs = Put(d.fs, row.old, Link(row.link))],
         [l EXCEPT !.pc = "mig_loop", !.i = @ + 1])
  ELSE R(d, [l EXCEPT !.pc = "mig_loop", !.i = @ + 1])

\* lines 661-662
OpDosC(x, d, l) ==
  IF ~Lexists(d.fs, "dosdevices/c:")
  THEN Called(OsSymlink(d.fs, "../drive_c", "dosdevices/c:"), d, l,
              [l EXCEPT !.pc = "dos_z"], "FileNotFoundError")
  ELSE R(d, [l EXCEPT !.pc = "dos_z"])

\* lines 664-665
OpDosZ(x, d, l) ==
  IF ~Lexists(d.fs, "dosdevices/z:")
  THEN Called(OsSymlink(d.fs, "/", "dosdevices/z:"), d, l,
              [l EXCEPT !.pc = "collect"], "FileNotFoundError")
  ELSE R(d, [l EXCEPT !.pc = "collect"])

\* prefix_info, lines 870-885, as the tuple of the components that vary: the
\* tag, the mtimes of the Steam client files ("0" when absent), the mtime of
\* the template's system.reg, use_wined3d, use_dxvk_dxgi, use_nvapi
PrefixInfo(x) ==
  << CURRENT_PREFIX_VERSION, IF x.legacy THEN 1 ELSE 0, x.treg, x.wined3d, ~x.wined3d, x.nvapi >>

\* the sync is decided by the recorded version alone
OpCollectByVersion(x, d, l) ==
  R(d, [l EXCEPT !.info = PrefixInfo(x),
                 !.sync = l.old.none \/ l.old.v # CURRENT_PREFIX_VERSION,
                 !.pc = IF l.old.none \/ l.old.v # CURRENT_PREFIX_VERSION
                        THEN "sy_read" ELSE "ver_write"])

\* lines 887-894
OpCollect(x, d, l) ==
  LET info == PrefixInfo(x)
      changed == IF d.config.ex THEN d.config.v # info ELSE TRUE
      sync == l.old.none \/ l.old.v # CURRENT_PREFIX_VERSION \/ changed
  IN R(d, [l EXCEPT !.info = info, !.sync = sync,
                    !.pc = IF sync THEN "sy_read" ELSE "ver_write"])

\* update_builtin_libs, lines 546-550: the manifest is read, then opened to append
OpSyRead(x, d, l) ==
  IF ~d.tracked.ex THEN Raise(d, l, "FileNotFoundError")
  ELSE R(d, [l EXCEPT !.pc = "sy_item", !.i = 1, !.prev = Range(d.tracked.lines),
                      !.open = TRUE, !.buf = <<>>, !.s0 = d.fs])

\* lines 559-571 without the branch of lines 566-568
SyDecideClobber(x, fs, p) ==
  IF ~TemplateIsWineBuiltinDll(x, p) THEN "continue"
  ELSE IF Lexists(fs, p) THEN "unlink"
  ELSE "makedirs"

\* lines 559-571: what the sync does with the file p of the walk
SyDecide(x, fs, p) ==
  IF ~TemplateIsWineBuiltinDll(x, p) THEN "continue"
  ELSE IF FileIsWineBuiltinDll(x, fs, p) THEN "unlink"
  ELSE IF Lexists(fs, p) THEN "continue"
  ELSE "makedirs"

\* lines 563-571: the file p of the walk is skipped, or unlinked, or its
\* directory is made, before the copy of line 572
SyDo(way, x, d, l, p) ==
  CASE way = "continue" -> R(d, [l EXCEPT !.i = @ + 1])
    [] way = "unlink" ->
         Called(OsRemove(d.fs, p), d, l, [l EXCEPT !.pc = "sy_copy"], "IsADirectoryError")
    [] OTHER ->
         IF Isdir(x, d.fs, Parent[p]) THEN R(d, [l EXCEPT !.pc = "sy_copy"])
         ELSE Raise(d, l, "FileExistsError")

\* lines 551-571: entry i of the walk; a stub destination is unlinked
OpSyItem(x, d, l) ==
  IF l.i > Len(TemplateWalk)
  THEN R(Flush(d, l), [l EXCEPT !.pc = "cfg_write", !.i = 1, !.open = FALSE, !.buf = <<>>])
  ELSE LET it == TemplateWalk[l.i] IN
       CASE it.t = "dir" ->
              IF ~Lexists(d.fs, it.p)
              THEN Called(OsMakedirs(d.fs, it.p), d, l, [l EXCEPT !.pc = "sy_rec"],
                          "NotADirectoryError")
              ELSE R(d, [l EXCEPT !.i = @ + 1])
         [] it.t = "dirlink" -> R(d, [l EXCEPT !.i = @ + 1])
         [] OTHER ->
              SyDo(SyDecide(x, d.fs, it.p), x, d, l, it.p)

\* the copy of line 573 is left out
OpSySkip(x, d, l) == R(d, [l EXCEPT !.pc = "sy_rec"])

\* lines 572-573
OpSyCopy(x, d, l) ==
  LET it == TemplateWalk[l.i] IN
  Copied(PfxCopy(x, d.fs, it.p, it.p, DllCopyMatch(it.p), FaultKind(l)), d, l,
         [l EXCEPT !.pc = "sy_rec",
                   !.nc = IF TemplateNode(x, it.p).k # "link" \/ DllCopyMatch(it.p)
                          THEN @ + 1 ELSE @])

\* lines 558 and 574-576
OpSyRec(x, d, l) ==
  LET it == TemplateWalk[l.i] IN
  IF it.t = "dir"
  THEN R(d, [l EXCEPT !.pc = "sy_item", !.i = @ + 1, !.buf = Append(@, DirLine(it.p))])
  ELSE IF FileLine(it.p) \notin l.prev
  THEN R(d, [l EXCEPT !.pc = "sy_item", !.i = @ + 1, !.buf = Append(@, FileLine(it.p))])
  ELSE R(d, [l EXCEPT !.pc = "sy_item", !.i = @ + 1])

\* lines 898-899
OpCfgWrite(x, d, l) ==
  R([d EXCEPT !.config = [ex |-> TRUE, v |-> l.info]],
    [l EXCEPT !.pc = "ver_write", !.wrote = @ \cup {"config_info"}])

\* the version file is written where there is none, and kept where there is one
OpVerWriteOnce(x, d, l) ==
  R(IF d.version.ex THEN d
    ELSE [d EXCEPT !.version = [ex |-> TRUE, v |-> CURRENT_PREFIX_VERSION]],
    [l EXCEPT !.pc = "fonts_mk", !.wrote = @ \cup {"version"}])

\* lines 901-902
OpVerWrite(x, d, l) ==
  R([d EXCEPT !.version = [ex |-> TRUE, v |-> CURRENT_PREFIX_VERSION]],
    [l EXCEPT !.pc = "fonts_mk", !.wrote = @ \cup {"version"}])

\* fontsmap, lines 579-592: (link name, target); two of its eleven rows, one
\* from each font directory
FontsMap ==
  << [lname |-> "drive_c/windows/Fonts/arial.ttf",
      fname |-> "/proton/files/share/fonts/LiberationSans-Regular.ttf"],
     [lname |-> "drive_c/windows/Fonts/tahoma.ttf",
      fname |-> "/proton/files/share/wine/fonts/tahoma.ttf"] >>

\* lines 594-595
OpFontsMk(x, d, l) ==
  R([d EXCEPT !.fs = Makedirs(d.fs, FONTS)], [l EXCEPT !.pc = "font", !.i = 1])

\* lines 596-604
OpFont(x, d, l) ==
  IF l.i > Len(FontsMap) THEN R(d, [l EXCEPT !.pc = "st_open", !.i = 1])
  ELSE LET f == FontsMap[l.i] IN
       IF Lexists(d.fs, f.lname)
       THEN IF Islink(d.fs, f.lname)
            THEN R([d EXCEPT !.fs = Put(d.fs, f.lname, Link(f.fname))], [l EXCEPT !.i = @ + 1])
            ELSE R(d, [l EXCEPT !.i = @ + 1])
       ELSE Called(OsSymlink(d.fs, f.fname, f.lname), d, l, [l EXCEPT !.i = @ + 1],
                   "FileNotFoundError")

\* filestocopy, lines 912-916 and 927-929
SteamCopies ==
  << [src |-> "/steam/legacycompat/steamclient.dll",
      dst |-> "drive_c/Program Files (x86)/Steam/steamclient.dll"],
     [src |-> "/steam/legacycompat/steamclient64.dll",
      dst |-> "drive_c/Program Files (x86)/Steam/steamclient64.dll"],
     [src |-> "/steam/legacycompat/GameOverlayRenderer64.dll",
      dst |-> "drive_c/Program Files (x86)/Steam/GameOverlayRenderer64.dll"],
     [src |-> "/steam/legacycompat/SteamService.exe",
      dst |-> "drive_c/Program Files (x86)/Steam/steam.exe"],
     [src |-> "/steam/legacycompat/Steam.dll",
      dst |-> "drive_c/Program Files (x86)/Steam/Steam.dll"],
     [src |-> "/proton/steamclient64.dll",
      dst |-> "drive_c/Program Files (x86)/Steam/steamclient64.dll"],
     [src |-> "/proton/GameOverlayRenderer.dll",
      dst |-> "drive_c/Program Files (x86)/Steam/GameOverlayRenderer.dll"],
     [src |-> "/proton/GameOverlayRenderer64.dll",
      dst |-> "drive_c/Program Files (x86)/Steam/GameOverlayRenderer64.dll"] >>

\* lines 907-911: open(tracked_files, "a") creates the file when it is missing
OpStOpen(x, d, l) ==
  R([d EXCEPT !.tracked.ex = TRUE, !.fs = Makedirs(d.fs, STEAMD)],
    [l EXCEPT !.pc = "st_item", !.i = 1, !.open = TRUE, !.buf = <<>>])

\* lines 919 and 932: os.path.isfile(dstfile), the destination is taken to be
\* in the manifest already
SteamTrackedNever(x, fs, dst) == FALSE

SteamTracked(x, fs, dst) == Isfile(x, fs, dst)

\* lines 917-924 and 930-937
OpStItem(x, d, l) ==
  IF l.i > Len(SteamCopies)
  THEN R(Flush(d, l), [l EXCEPT !.pc = "lib", !.i = 1, !.open = FALSE, !.buf = <<>>])
  ELSE LET c == SteamCopies[l.i] IN
       IF ExtNode(x, c.src).k = "file"
       THEN IF SteamTracked(x, d.fs, c.dst)
            THEN R([d EXCEPT !.fs = OsRemove(d.fs, c.dst).fs], [l EXCEPT !.pc = "st_copy"])
            ELSE R(d, [l EXCEPT !.pc = "st_copy", !.buf = Append(@, FileLine(c.dst))])
       ELSE R(d, [l EXCEPT !.i = @ + 1])

\* lines 925 and 938
OpStCopy(x, d, l) ==
  LET c == SteamCopies[l.i] IN
  Copied(TryCopy(x, d.fs, ExtNode(x, c.src), c.dst, FALSE, FALSE, FaultKind(l)), d, l,
         [l EXCEPT !.pc = "st_item", !.i = @ + 1, !.nc = @ + 1])

\* rows of the library section
Mk(dst) == [op |-> "makedirs", src |-> "", dst |-> dst, into |-> FALSE, optional |-> FALSE]
Cp(src, dst, into, optional) ==
  [op |-> "try_copy", src |-> src, dst |-> dst, into |-> into, optional |-> optional]
Un(dst) == [op |-> "unlink", src |-> "", dst |-> dst, into |-> FALSE, optional |-> FALSE]

\* lines 940-1013, in order, for the library files the model holds; a source
\* below default_pfx_dir is written "template:" and its path there
LibOps(x) ==
  << Mk(VRB),
     Cp("/proton/files/lib/wine/i386-windows/vrclient.dll",
        "drive_c/vrclient/bin/vrclient.dll", TRUE, FALSE),
     Cp("/proton/files/lib64/wine/x86_64-windows/vrclient_x64.dll",
        "drive_c/vrclient/bin/vrclient_x64.dll", TRUE, FALSE),
     Cp("/proton/files/lib64/wine/dxvk/openvr_api_dxvk.dll",
        "drive_c/windows/system32/openvr_api_dxvk.dll", TRUE, FALSE),
     Mk(OXR),
     Cp("template:drive_c/openxr/wineopenxr64.json",
        "drive_c/openxr/wineopenxr64.json", TRUE, FALSE),
     Cp("/proton/files/lib64/vkd3d/libvkd3d-shader-1.dll",
        "drive_c/windows/system32/libvkd3d-shader-1.dll", FALSE, FALSE) >>
  \o (IF x.wined3d
      THEN << Cp("template:drive_c/windows/system32/d3d11.dll",
                 "drive_c/windows/system32/d3d11.dll", FALSE, FALSE),
              Cp("template:drive_c/windows/syswow64/d3d11.dll",
                 "drive_c/windows/syswow64/d3d11.dll", FALSE, FALSE),
              Cp("template:drive_c/windows/system32/dxgi.dll",
                 "drive_c/windows/system32/dxgi.dll", FALSE, FALSE),
              Cp("/proton/files/lib64/wine/dxvk/dxvk_config.dll",
                 "drive_c/windows/system32/dxvk_config.dll", FALSE, FALSE) >>
      ELSE << Cp("/proton/files/lib64/wine/dxvk/dxvk_config.dll",
                 "drive_c/windows/system32/dxvk_config.dll", FALSE, FALSE),
              Cp("/proton/files/lib64/wine/dxvk/d3d11.dll",
                 "drive_c/windows/system32/d3d11.dll", FALSE, FALSE),
              Cp("/proton/files/lib/wine/dxvk/d3d11.dll",
                 "drive_c/windows/syswow64/d3d11.dll", FALSE, FALSE),
              Cp("/proton/files/lib64/wine/dxvk/dxgi.dll",
                 "drive_c/windows/system32/dxgi.dll", FALSE, FALSE) >>)
  \o (IF x.nvapi
      THEN << Cp("/proton/files/lib64/wine/nvapi/nvapi64.dll",
                 "drive_c/windows/system32/nvapi64.dll", FALSE, FALSE),
              Cp("/proton/files/lib/wine/nvapi/nvapi.dll",
                 "drive_c/windows/syswow64/nvapi.dll", FALSE, FALSE) >>
      ELSE << Un("drive_c/windows/system32/nvapi64.dll"),
              Un("drive_c/windows/syswow64/nvapi.dll") >>)
  \o (IF x.nvidia # "none"
      THEN << Cp("/nvidia/wine/_nvngx.dll", "drive_c/windows/system32/_nvngx.dll", FALSE, TRUE),
              Cp("/nvidia/wine/nvngx.dll", "drive_c/windows/system32/nvngx.dll", FALSE, TRUE) >>
      ELSE << >>)
  \o << Cp("/proton/files/lib64/wine/vkd3d-proton/d3d12.dll",
           "drive_c/windows/system32/d3d12.dll", FALSE, FALSE) >>

\* the node a row's source resolves to
LibSrc(x, src) ==
  CASE src = "template:drive_c/openxr/wineopenxr64.json"
         -> TemplateResolved(x, "drive_c/openxr/wineopenxr64.json")
    [] src = "template:drive_c/windows/system32/d3d11.dll"
         -> TemplateResolved(x, "drive_c/windows/system32/d3d11.dll")
    [] src = "template:drive_c/windows/syswow64/d3d11.dll"
         -> TemplateResolved(x, "drive_c/windows/syswow64/d3d11.dll")
    [] src = "template:drive_c/windows/system32/dxgi.dll"
         -> TemplateResolved(x, "drive_c/windows/system32/dxgi.dll")
    [] OTHER -> ExtNode(x, src)

\* one row of lines 940-1013
OpLib(x, d, l) ==
  IF l.i > Len(LibOps(x)) THEN R(d, [l EXCEPT !.pc = "gamedrive", !.i = 1])
  ELSE LET o == LibOps(x)[l.i] IN
       CASE o.op = "makedirs" ->
              R([d EXCEPT !.fs = Makedirs(d.fs, o.dst)], [l EXCEPT !.i = @ + 1])
         [] o.op = "unlink" ->
              IF Exists(x, d.fs, o.dst)
              THEN Called(OsRemove(d.fs, o.dst), d, l, [l EXCEPT !.i = @ + 1],
                          "IsADirectoryError")
              ELSE R(d, [l EXCEPT !.i = @ + 1])
         [] OTHER ->
              Copied(TryCopy(x, d.fs, LibSrc(x, o.src), o.dst, o.into, o.optional,
                             FaultKind(l)),
                     d, l, [l EXCEPT !.i = @ + 1, !.nc = @ + 1])

\* line 1019: gamedrive_path
GAMEDRIVE == "dosdevices/s:"

\* lines 1015-1030
OpGamedrive(x, d, l) ==
  IF x.gamedrive = "off" \/ x.gamedrive = "nolib"
  THEN IF Lexists(d.fs, GAMEDRIVE)
       THEN Called(OsRemove(d.fs, GAMEDRIVE), d, l, [l EXCEPT !.pc = "unlock"],
                   "IsADirectoryError")
       ELSE R(d, [l EXCEPT !.pc = "unlock"])
  ELSE IF Lexists(d.fs, GAMEDRIVE) /\ ~Islink(d.fs, GAMEDRIVE) THEN Raise(d, l, "OSError")
  ELSE IF Lexists(d.fs, GAMEDRIVE) /\ d.fs[GAMEDRIVE].c = "/library"
  THEN R(d, [l EXCEPT !.pc = "unlock"])
  ELSE Linked(OsSymlink(Unlinked(d.fs, GAMEDRIVE), "/library", GAMEDRIVE), d, l,
              [l EXCEPT !.pc = "unlock"])

\* the positions of setup_prefix between taking and releasing prefix_lock
Pcs ==
  { "read_ver", "upgrade", "up_seed", "up_wipe", "up_37", "up_net", "up_xinput",
    "xi_old", "xi_mv", "up_dde", "dde_old", "dde_mv", "up_stale", "mkpfx", "mkpfx2",
    "populate", "cp_item", "cp_rec", "mig_loop", "mig_merge", "mig_rename", "mig_link",
    "dos_c", "dos_z", "collect", "sy_read", "sy_item", "sy_copy", "sy_rec", "cfg_write",
    "ver_write", "fonts_mk", "font", "st_open", "st_item", "st_copy", "lib", "gamedrive" }

\* the statement at l.pc
Stmt(x, d, l) ==
  CASE l.pc = "read_ver" -> OpReadVer(x, d, l)
    [] l.pc = "upgrade" -> OpUpgrade(x, d, l)
    [] l.pc = "up_seed" -> OpUpSeed(x, d, l)
    [] l.pc = "up_wipe" -> OpUpWipe(x, d, l)
    [] l.pc = "up_37" -> OpUp37(x, d, l)
    [] l.pc = "up_net" -> OpUpNet(x, d, l)
    [] l.pc = "up_xinput" -> OpRewriteNew(x, d, l, "xinput")
    [] l.pc = "xi_old" -> OpRewriteOld(x, d, l, "xinput")
    [] l.pc = "xi_mv" -> OpRewriteMv(x, d, l, "xinput")
    [] l.pc = "up_dde" -> OpRewriteNew(x, d, l, "dde")
    [] l.pc = "dde_old" -> OpRewriteOld(x, d, l, "dde")
    [] l.pc = "dde_mv" -> OpRewriteMv(x, d, l, "dde")
    [] l.pc = "up_stale" -> OpUpStale(x, d, l)
    [] l.pc = "mkpfx" -> OpMkpfx(x, d, l)
    [] l.pc = "mkpfx2" -> OpMkpfx2(x, d, l)
    [] l.pc = "populate" -> OpPopulate(x, d, l)
    [] l.pc = "cp_item" -> OpCpItem(x, d, l)
    [] l.pc = "cp_rec" -> OpCpRec(x, d, l)
    [] l.pc = "mig_loop" -> OpMigLoop(x, d, l)
    [] l.pc = "mig_merge" -> OpMigMerge(x, d, l)
    [] l.pc = "mig_rename" -> OpMigRename(x, d, l)
    [] l.pc = "mig_link" -> OpMigLink(x, d, l)
    [] l.pc = "dos_c" -> OpDosC(x, d, l)
    [] l.pc = "dos_z" -> OpDosZ(x, d, l)
    [] l.pc = "collect" -> OpCollect(x, d, l)
    [] l.pc = "sy_read" -> OpSyRead(x, d, l)
    [] l.pc = "sy_item" -> OpSyItem(x, d, l)
    [] l.pc = "sy_copy" -> OpSyCopy(x, d, l)
    [] l.pc = "sy_rec" -> OpSyRec(x, d, l)
    [] l.pc = "cfg_write" -> OpCfgWrite(x, d, l)
    [] l.pc = "ver_write" -> OpVerWrite(x, d, l)
    [] l.pc = "fonts_mk" -> OpFontsMk(x, d, l)
    [] l.pc = "font" -> OpFont(x, d, l)
    [] l.pc = "st_open" -> OpStOpen(x, d, l)
    [] l.pc = "st_item" -> OpStItem(x, d, l)
    [] l.pc = "st_copy" -> OpStCopy(x, d, l)
    [] l.pc = "lib" -> OpLib(x, d, l)
    [] l.pc = "gamedrive" -> OpGamedrive(x, d, l)

\* the element of a set of one element
Only(S) == CHOOSE y \in S : TRUE

\* one statement, with the record of what the run created or rewrote
Made(d, r) ==
  R(r.d, [r.l EXCEPT !.made = @ \cup {p \in Paths : r.d.fs[p].k # "none" /\ r.d.fs[p] # d.fs[p]}])

Exec(x, d, l) == Only({Made(d, r) : r \in {Stmt(x, d, l)}})

\* setup_prefix from l to the release of the lock
RECURSIVE RunFrom(_, _, _)
RunOn(x, r) == RunFrom(x, r.d, r.l)

RunFrom(x, d, l) ==
  IF l.pc = "unlock" THEN R(d, l)
  ELSE RunOn(x, Exec(x, d, l))

(***************************************************************************)
(* The system: launcher processes that call setup_prefix on one instance,  *)
(* and the world around it (the user, Steam, other runtime versions)       *)
(* changing the instance and the environment between calls.                *)
(***************************************************************************)
VARIABLES disk, env, proc, lock, log, epoch, used, dist

vars == << disk, env, proc, lock, log, epoch, used, dist >>

\* bounds
NProcs == 2
MaxRuns == 3
MaxEvents == 1
MaxFaults == 1
MaxKills == 1

Procs == 1..NProcs

NoFs == [p \in Paths |-> NONE]

\* compatdata/ as Steam creates it: no pfx/, no bookkeeping files
FreshDisk ==
  [fs |-> NoFs, tracked |-> [ex |-> FALSE, lines |-> <<>>],
   version |-> [ex |-> FALSE, v |-> <<>>], config |-> [ex |-> FALSE, v |-> <<>>]]

NoFault == [at |-> 0, kind |-> "none"]

IdleLocals ==
  [pc |-> "idle", i |-> 1, old |-> [none |-> TRUE, v |-> <<>>], open |-> FALSE,
   buf |-> <<>>, prev |-> {}, sync |-> FALSE, info |-> <<>>, nc |-> 0, fault |-> NoFault,
   err |-> "", pre |-> FreshDisk, made |-> {}, wiped |-> FALSE, patched |-> {}, s0 |-> NoFs,
   wrote |-> {}]

\* the locals of a call that has taken prefix_lock on the instance d
StartLocals(d, f) == [IdleLocals EXCEPT !.pc = "read_ver", !.fault = f, !.pre = d]

DefaultEnv ==
  [wined3d |-> FALSE, nvapi |-> FALSE, gamedrive |-> "off", tstub |-> 1, treg |-> 1,
   legacy |-> TRUE, pdll |-> TRUE, nvidia |-> "none", vr |-> TRUE]

Envs ==
  { DefaultEnv,
    [DefaultEnv EXCEPT !.tstub = 2, !.treg = 2],
    [DefaultEnv EXCEPT !.tstub = 2],
    [DefaultEnv EXCEPT !.wined3d = TRUE, !.nvapi = TRUE, !.gamedrive = "lib",
                       !.nvidia = "partial"],
    [DefaultEnv EXCEPT !.vr = FALSE, !.legacy = FALSE] }

\* the permission failures a call may meet: at its 2nd or its 8th copy
Faults ==
  { NoFault, [at |-> 2, kind |-> "open"], [at |-> 2, kind |-> "rm"],
    [at |-> 8, kind |-> "open"], [at |-> 8, kind |-> "rm"], [at |-> 8, kind |-> "eacces"] }

Quiet == lock = 0 /\ \A p \in Procs : proc[p].pc = "idle"

Inside(p) == proc[p].pc \in Pcs \cup {"unlock"}

\* a lock that excludes nobody
FileLockAbsent(holder) == TRUE

\* FileLock.acquire with timeout -1 (lines 349 and 640) returns when no other
\* process holds the lock
FileLockFree(holder) == holder = 0

\* a process calls setup_prefix and waits at line 640
Call(p) ==
  /\ proc[p].pc = "idle"
  /\ used.runs < MaxRuns
  /\ proc' = [proc EXCEPT ![p].pc = "lock"]
  /\ used' = [used EXCEPT !.runs = @ + 1]
  /\ epoch' = IF Quiet THEN [d0 |-> disk, order |-> <<>>] ELSE epoch
  /\ UNCHANGED << disk, env, lock, log >>

\* line 640: with self.prefix_lock
Acquire(p) ==
  /\ proc[p].pc = "lock"
  /\ FileLockFree(lock)
  /\ \E f \in Faults :
       /\ f # NoFault => used.faults < MaxFaults
       /\ proc' = [proc EXCEPT ![p] = StartLocals(disk, f)]
       /\ used' = [used EXCEPT !.faults = IF f # NoFault THEN @ + 1 ELSE @]
       /\ epoch' = [epoch EXCEPT !.order = Append(@, f)]
  /\ lock' = p
  /\ UNCHANGED << disk, env, log >>

\* one statement of setup_prefix
Took(p, r) ==
  /\ disk' = r.d
  /\ proc' = [proc EXCEPT ![p] = r.l]

Step(p) ==
  /\ proc[p].pc \in Pcs
  /\ \E r \in {Exec(env, disk, proc[p])} : Took(p, r)
  /\ UNCHANGED << env, lock, log, epoch, used >>

\* the with-block is left and the lock stays with the process
ReleaseHeld(p) ==
  /\ proc[p].pc = "unlock"
  /\ lock' = lock
  /\ proc' = [proc EXCEPT ![p] = IdleLocals]
  /\ log' = (IF Len(log) = 2 THEN Tail(log) ELSE log)
              \o << [x |-> env, l |-> proc[p], post |-> disk] >>
  /\ UNCHANGED << disk, env, epoch, used >>

\* the end of the with-block of line 640, by return or by exception
Release(p) ==
  /\ proc[p].pc = "unlock"
  /\ lock' = IF lock = p THEN 0 ELSE lock
  /\ proc' = [proc EXCEPT ![p] = IdleLocals]
  /\ log' = (IF Len(log) = 2 THEN Tail(log) ELSE log)
              \o << [x |-> env, l |-> proc[p], post |-> disk] >>
  /\ UNCHANGED << disk, env, epoch, used >>

\* what the user may delete from the instance between two runs
Deletable ==
  { "user.reg", "system.reg", "drive_c/Program Files (x86)/Steam/steam.exe",
    "drive_c/windows/system32/kernel32.dll", WOW }

\* what the user or a game may write into the instance between two runs
Writable == { "drive_c/save.dat", "drive_c/windows/system32/save.dat",
              "drive_c/windows/system32/kernel32.dll" }

\* the tags other releases of the runtime leave in the version file
ForeignTags == { <<"7", ".", "0", "-", "1">>, <<"5", ".", "0", "-", "1">> }

Event ==
  /\ Quiet
  /\ used.events < MaxEvents
  /\ used' = [used EXCEPT !.events = @ + 1]
  /\ log' = <<>>
  /\ epoch' = [d0 |-> disk', order |-> <<>>]
  /\ UNCHANGED << proc, lock >>

UserDelete ==
  /\ \E p \in Deletable :
       /\ Lexists(disk.fs, p)
       /\ disk' = [disk EXCEPT !.fs = IF disk.fs[p].k = "dir" THEN Rmtree(disk.fs, p).fs
                                      ELSE OsRemove(disk.fs, p).fs]
  /\ env' = env
  /\ Event

UserWrite ==
  /\ \E p \in Writable :
       /\ ParentsAreDirs(disk.fs, p)
       /\ disk.fs[p].k # "dir"
       /\ disk' = [disk EXCEPT !.fs = Put(disk.fs, p, File("user data", TRUE))]
  /\ env' = env
  /\ Event

\* the runtime is updated, or the user changes the launch options
EnvChange ==
  /\ \E x \in Envs \ {env} : env' = x
  /\ disk' = disk
  /\ Event

\* the instance was last used by another release of the runtime
ForeignVersion ==
  /\ disk.version.ex
  /\ \E v \in ForeignTags : disk' = [disk EXCEPT !.version.v = v]
  /\ env' = env
  /\ Event

(***************************************************************************)
(* The runtime installation the launchers share (Proton, lines 280-341).   *)
(* dist holds the holder of dist.lock, whether default_pfx (tpl), the      *)
(* legacy dist/ directory and steampipe_fixups.json exist, each launcher's *)
(* position in __main__ (lines 1472-1504), how many times each ran the     *)
(* build of default_pfx, and which called make_default_prefix.  whole says *)
(* that default_pfx holds everything wineboot puts there.                  *)
(***************************************************************************)
DistStart(tpl, legacy, fixups) ==
  [lock |-> 0, tpl |-> tpl, whole |-> tpl, legacy |-> legacy, fixups |-> fixups,
   pc |-> [p \in Procs |-> "start"], built |-> [p \in Procs |-> 0], called |-> {}]

\* the installation a model of the instance alone assumes: complete, at rest
DistIdle ==
  [DistStart(TRUE, FALSE, "none") EXCEPT !.pc = [p \in Procs |-> "exited"]]

Init ==
  /\ dist = DistIdle
  /\ disk = FreshDisk
  /\ env \in Envs
  /\ proc = [p \in Procs |-> IdleLocals]
  /\ lock = 0
  /\ log = <<>>
  /\ epoch = [d0 |-> FreshDisk, order |-> <<>>]
  /\ used = [runs |-> 0, events |-> 0, faults |-> 0, kills |-> 0]

\* one launcher process; the world changes between its runs
Next ==
  \/ Call(1) /\ UNCHANGED dist
  \/ Acquire(1) /\ UNCHANGED dist
  \/ Step(1) /\ UNCHANGED dist
  \/ Release(1) /\ UNCHANGED dist
  \/ UserDelete /\ UNCHANGED dist
  \/ UserWrite /\ UNCHANGED dist
  \/ EnvChange /\ UNCHANGED dist
  \/ ForeignVersion /\ UNCHANGED dist

Spec == Init /\ [][Next]_vars

\* two launcher processes on one instance
NextConc ==
  \/ \E p \in Procs : Call(p) /\ UNCHANGED dist
  \/ \E p \in Procs : Acquire(p) /\ UNCHANGED dist
  \/ \E p \in Procs : Step(p) /\ UNCHANGED dist
  \/ \E p \in Procs : Release(p) /\ UNCHANGED dist

SpecConc == Init /\ [][NextConc]_vars

\* remove_tracked_files called on the instance as it stands
Removed(r) ==
  /\ disk' = r.d
  /\ log' = << [x |-> env,
                l |-> [IdleLocals EXCEPT !.pre = disk, !.wiped = TRUE, !.err = r.raised],
                post |-> r.d] >>
  /\ epoch' = [d0 |-> r.d, order |-> <<>>]

RemoveCall ==
  /\ Quiet
  /\ log = <<>>
  /\ Removed(RemoveTrackedFiles(env, disk))
  /\ UNCHANGED << env, proc, lock, used >>

NextOps == Next \/ (RemoveCall /\ UNCHANGED dist)

\* what a text file holds after its writer was killed: the lines written
\* through the file object stay in its buffer until the buffer fills or the
\* with-block ends (lines 523 and 550), so the file holds them up to some line
Durable(d, l, k) ==
  IF l.open THEN [d EXCEPT !.tracked.lines = @ \o SubSeq(l.buf, 1, k)] ELSE d

\* the process is killed inside setup_prefix; the lock on pfx.lock ends with it
Kill(p) ==
  /\ proc[p].pc \in Pcs
  /\ used.kills < MaxKills
  /\ \E k \in {0, Len(proc[p].buf)} : disk' = Durable(disk, proc[p], k)
  /\ lock' = IF lock = p THEN 0 ELSE lock
  /\ proc' = [proc EXCEPT ![p] = IdleLocals]
  /\ log' = (IF Len(log) = 2 THEN Tail(log) ELSE log)
              \o << [x |-> env, l |-> [proc[p] EXCEPT !.err = "killed"], post |-> disk'] >>
  /\ used' = [used EXCEPT !.kills = @ + 1]
  /\ UNCHANGED << env, epoch >>

\* a call that takes the lock and meets no permission failure
AcquireClean(p) == Acquire(p) /\ proc'[p].fault = NoFault

NextCrash ==
  \/ Call(1) /\ UNCHANGED dist
  \/ AcquireClean(1) /\ UNCHANGED dist
  \/ Step(1) /\ UNCHANGED dist
  \/ Release(1) /\ UNCHANGED dist
  \/ Kill(1) /\ UNCHANGED dist

\* one launcher process that may be killed in the middle of a run
SpecCrash == Init /\ [][NextCrash]_vars

\* the runtime installation that populated the instance lay elsewhere and has
\* since been removed: the stub link kernel32.dll of the instance dangles
RuntimeGone ==
  /\ disk.fs["drive_c/windows/system32/kernel32.dll"]
       = Link("/proton/files/lib64/wine/x86_64-windows/kernel32.dll")
  /\ disk' = [disk EXCEPT !.fs["drive_c/windows/system32/kernel32.dll"]
                            = Link("/removed/files/lib64/wine/x86_64-windows/kernel32.dll")]
  /\ env' = env
  /\ Event

\* remove_tracked_files called on the instance a killed run or an event left
RemoveLeft ==
  /\ Quiet
  /\ IF log = <<>> THEN TRUE ELSE log[Len(log)].l.err = "killed"
  /\ Removed(RemoveTrackedFiles(env, disk))
  /\ UNCHANGED << env, proc, lock, used >>

InitWipe == Init /\ env = DefaultEnv

NextWipe ==
  \/ Call(1) /\ UNCHANGED dist
  \/ AcquireClean(1) /\ UNCHANGED dist
  \/ Step(1) /\ UNCHANGED dist
  \/ Release(1) /\ UNCHANGED dist
  \/ Kill(1) /\ UNCHANGED dist
  \/ RuntimeGone /\ UNCHANGED dist
  \/ RemoveLeft /\ UNCHANGED dist

\* runs that may be killed, and remove_tracked_files applied to what they left
SpecWipe == InitWipe /\ [][NextWipe]_vars

\* where a game's installer puts libraries of its own: paths that the Steam
\* client section and the library section of setup_prefix also write
AppPaths ==
  { "drive_c/windows/system32/d3d11.dll", "drive_c/windows/system32/nvapi64.dll",
    "drive_c/Program Files (x86)/Steam/steamclient.dll" }

\* the game installs a library of its own between two runs
AppInstall ==
  /\ \E p \in AppPaths :
       /\ ParentsAreDirs(disk.fs, p)
       /\ disk.fs[p].k # "dir"
       /\ disk' = [disk EXCEPT !.fs = Put(disk.fs, p, File("user data", TRUE))]
  /\ env' = env
  /\ Event

NextApp ==
  \/ Call(1) /\ UNCHANGED dist
  \/ AcquireClean(1) /\ UNCHANGED dist
  \/ Step(1) /\ UNCHANGED dist
  \/ Release(1) /\ UNCHANGED dist
  \/ AppInstall /\ UNCHANGED dist

\* runs of setup_prefix on an instance into which a game installs libraries
SpecApp == InitWipe /\ [][NextApp]_vars

\* the NVIDIA driver is installed, updated or removed: find_nvidia_wine_dll_dir
\* (line 1003) finds no directory, one with nvngx.dll alone, or one with both
\* libraries
DriverChange ==
  /\ \E n \in {"none", "partial", "full"} \ {env.nvidia} : env' = [env EXCEPT !.nvidia = n]
  /\ disk' = disk
  /\ Event

InitDriver ==
  /\ dist = DistIdle
  /\ disk = FreshDisk
  /\ env = [DefaultEnv EXCEPT !.nvidia = "full"]
  /\ proc = [p \in Procs |-> IdleLocals]
  /\ lock = 0
  /\ log = <<>>
  /\ epoch = [d0 |-> FreshDisk, order |-> <<>>]
  /\ used = [runs |-> 0, events |-> 0, faults |-> 0, kills |-> 0]

NextDriver ==
  \/ Call(1) /\ UNCHANGED dist
  \/ Acquire(1) /\ UNCHANGED dist
  \/ Step(1) /\ UNCHANGED dist
  \/ Release(1) /\ UNCHANGED dist
  \/ DriverChange /\ UNCHANGED dist

\* runs of setup_prefix on a machine whose NVIDIA driver changes between them
SpecDriver == InitDriver /\ [][NextDriver]_vars

\* what the version file may hold when another release, or something else,
\* wrote it: a newer release, the current release with another revision,
\* text without "-", a tag without "."
OtherTags ==
  { <<"7", ".", "0", "-", "1">>,
    <<"6", ".", "20", "-", "GE", "-", "2">>, <<"6", ".", "20", "-", "GE", "-", "0">>,
    <<"garbage">>, <<"6", "-", "1">> }

\* the instance was last used by something that left this tag, and that kept
\* the manifest or left none
ForeignInstance ==
  /\ disk.version.ex
  /\ \E v \in OtherTags, keep \in BOOLEAN :
       disk' = [disk EXCEPT !.version.v = v,
                            !.tracked = IF keep THEN @ ELSE [ex |-> FALSE, lines |-> <<>>]]
  /\ env' = env
  /\ Event

NextTags ==
  \/ Call(1) /\ UNCHANGED dist
  \/ AcquireClean(1) /\ UNCHANGED dist
  \/ Step(1) /\ UNCHANGED dist
  \/ Release(1) /\ UNCHANGED dist
  \/ ForeignInstance /\ UNCHANGED dist

\* runs of setup_prefix on an instance whose version file others wrote
SpecTags == InitWipe /\ [][NextTags]_vars

(***************************************************************************)
(* The registry patches of upgrade_pfx, lines 424-494, on their own: the   *)
(* statements of the two rewrites for a recorded tag that passes both      *)
(* guards (4.11-1), applied to an instance whose system.reg holds a few    *)
(* lines; the process may be killed between two statements, and the        *)
(* patches run again while the version file still holds the tag.           *)
(***************************************************************************)
MaxLines == 2

\* lines of system.reg: two sections of a controller, a section the xinput
\* rewrite drops, a ShellExecute key, its command value, and an ordinary line
RegLines ==
  { <<"[", "System\\", "CurrentControlSet", "\\Enum\\HID\\", "IG_", "00]">>,
    <<"[", "System\\", "CurrentControlSet", "\\Control\\", "DeviceClasses", "\\", "IG_", "00]">>,
    <<"[", "System\\", "CurrentControlSet", "\\Services\\", "IG_", "]">>,
    <<"[Software\\Classes\\http\\shell\\open\\", "ddeexec", "]">>,
    DdeWb,
    <<"#arch=win64">> }

RECURSIVE SeqsUpTo(_, _)
SeqsUpTo(S, n) ==
  IF n = 0 THEN {<<>>}
  ELSE SeqsUpTo(S, n - 1) \cup {Append(q, e) : q \in SeqsUpTo(S, n - 1), e \in S}

PatchedTag == <<"4", ".", "11", "-", "1">>

\* an instance release 4.11-1 set up, as far as the patches read it
RegDisk(lines) ==
  [FreshDisk EXCEPT !.fs = [NoFs EXCEPT ![ROOT] = DIR,
                                        !["system.reg"] = Text("system.reg #1", lines)],
                    !.version = [ex |-> TRUE, v |-> PatchedTag]]

InitPatch ==
  /\ dist = DistIdle
  /\ disk \in {RegDisk(lines) : lines \in SeqsUpTo(RegLines, MaxLines)}
  /\ env = DefaultEnv
  /\ proc = [p \in Procs |-> IdleLocals]
  /\ lock = 0
  /\ log = <<>>
  /\ epoch = [d0 |-> disk, order |-> <<>>]
  /\ used = [runs |-> 0, events |-> 0, faults |-> 0, kills |-> 0]

PatchPcs == {"up_xinput", "xi_old", "xi_mv", "up_dde", "dde_old", "dde_mv"}

\* the statement at l.pc with the guards of lines 425-426 and 452-453 passed;
\* after the second rewrite upgrade_pfx is left
PatchStmt(x, d, l) ==
  CASE l.pc = "up_xinput" -> RewriteNew(x, d, l, "xinput")
    [] l.pc = "xi_old" -> OpRewriteOld(x, d, l, "xinput")
    [] l.pc = "xi_mv" -> OpRewriteMv(x, d, l, "xinput")
    [] l.pc = "up_dde" -> RewriteNew(x, d, l, "dde")
    [] l.pc = "dde_old" -> OpRewriteOld(x, d, l, "dde")
    [] l.pc = "dde_mv" ->
         R(OpRewriteMv(x, d, l, "dde").d, [OpRewriteMv(x, d, l, "dde").l EXCEPT !.pc = "unlock"])

\* the lock is taken and upgrade_pfx is at the first rewrite
PatchAcquire(p) ==
  /\ proc[p].pc = "lock"
  /\ FileLockFree(lock)
  /\ proc' = [proc EXCEPT ![p] = [StartLocals(disk, NoFault) EXCEPT
                                    !.pc = "up_xinput",
                                    !.old = [none |-> FALSE, v |-> disk.version.v]]]
  /\ lock' = p
  /\ epoch' = [epoch EXCEPT !.order = Append(@, NoFault)]
  /\ UNCHANGED << disk, env, log, used >>

PatchStep(p) ==
  /\ proc[p].pc \in PatchPcs
  /\ Took(p, PatchStmt(env, disk, proc[p]))
  /\ UNCHANGED << env, lock, log, epoch, used >>

NextPatch ==
  \/ Call(1) /\ UNCHANGED dist
  \/ PatchAcquire(1) /\ UNCHANGED dist
  \/ PatchStep(1) /\ UNCHANGED dist
  \/ Release(1) /\ UNCHANGED dist
  \/ Kill(1) /\ UNCHANGED dist

SpecPatch == InitPatch /\ [][NextPatch]_vars

(***************************************************************************)
(* __main__, lines 1472-1504: each launcher cleans up the legacy dist/,    *)
(* applies the steampipe fixups, builds default_pfx if it is missing,      *)
(* sets up the instance and runs the game.                                 *)
(***************************************************************************)
inst == << disk, env, proc, lock, log, epoch, used >>

Goto(p, pc) == [dist EXCEPT !.pc[p] = pc]

\* the test is taken to find default_pfx missing whatever the disk holds
MissingAssumed(tpl) == TRUE

\* missing_default_prefix, lines 329-331
MissingDefaultPrefix(tpl) == ~tpl

\* cleanup_legacy_dist, line 302: the test before the lock
CleanupTest(p) ==
  /\ dist.pc[p] = "start"
  /\ dist' = Goto(p, IF dist.legacy THEN "cl_lock" ELSE "fx_test")
  /\ UNCHANGED inst

\* a FileLock with a finite timeout: the launcher that waits for dist_lock
\* takes it when it is free, or gives up with a Timeout that ends it
DistAcquireTimeout(p) ==
  /\ dist.pc[p] \in {"cl_lock", "fx_lock", "mdp_lock"}
  /\ IF FileLockFree(dist.lock)
     THEN dist' = [dist EXCEPT !.lock = p,
                               !.pc[p] = CASE @ = "cl_lock" -> "cl_in"
                                           [] @ = "fx_lock" -> "fx_in"
                                           [] OTHER -> "mdp_in"]
     ELSE dist' = Goto(p, "exited")
  /\ UNCHANGED inst

\* with self.dist_lock, lines 303, 312 and 334
DistAcquire(p) ==
  /\ dist.pc[p] \in {"cl_lock", "fx_lock", "mdp_lock"}
  /\ FileLockFree(dist.lock)
  /\ dist' = [dist EXCEPT !.lock = p,
                          !.pc[p] = CASE @ = "cl_lock" -> "cl_in"
                                      [] @ = "fx_lock" -> "fx_in"
                                      [] OTHER -> "mdp_in"]
  /\ UNCHANGED inst

\* lines 304-305
CleanupRemove(p) ==
  /\ dist.pc[p] = "cl_in"
  /\ dist' = [dist EXCEPT !.legacy = FALSE, !.pc[p] = "cl_out"]
  /\ UNCHANGED inst

\* the with-block on dist_lock is left and the lock stays with the launcher
DistReleaseHeld(p) ==
  /\ dist.pc[p] \in {"cl_out", "fx_out", "mdp_out"}
  /\ dist' = [dist EXCEPT !.pc[p] = CASE @ = "cl_out" -> "fx_test"
                                      [] @ = "fx_out" -> "mdp_test"
                                      [] OTHER -> "session"]
  /\ UNCHANGED inst

\* the end of a with-block on dist_lock
DistRelease(p) ==
  /\ dist.pc[p] \in {"cl_out", "fx_out", "mdp_out"}
  /\ dist' = [dist EXCEPT !.lock = IF @ = p THEN 0 ELSE @,
                          !.pc[p] = CASE @ = "cl_out" -> "fx_test"
                                      [] @ = "fx_out" -> "mdp_test"
                                      [] OTHER -> "session"]
  /\ UNCHANGED inst

\* do_steampipe_fixups, line 311
FixupsTest(p) ==
  /\ dist.pc[p] = "fx_test"
  /\ dist' = Goto(p, IF dist.fixups # "none" THEN "fx_lock" ELSE "mdp_test")
  /\ UNCHANGED inst

\* lines 313-327: do_restore when the recorded mtime is not the file's, its
\* mtime recorded when it returns 0
FixupsRestore(p) ==
  /\ dist.pc[p] = "fx_in"
  /\ \E ok \in BOOLEAN :
       dist' = [dist EXCEPT !.fixups = IF @ = "stale" /\ ok THEN "current" ELSE @,
                            !.pc[p] = "fx_out"]
  /\ UNCHANGED inst

\* line 1487
MissingTest(p) ==
  /\ dist.pc[p] = "mdp_test"
  /\ dist' = IF MissingDefaultPrefix(dist.tpl)
             THEN [dist EXCEPT !.pc[p] = "mdp_lock", !.called = @ \cup {p}]
             ELSE Goto(p, "session")
  /\ UNCHANGED inst

\* make_default_prefix, lines 335-336: the test under the lock
MakeTest(p) ==
  /\ dist.pc[p] = "mdp_in"
  /\ dist' = Goto(p, IF MissingDefaultPrefix(dist.tpl) THEN "wineboot" ELSE "mdp_out")
  /\ UNCHANGED inst

\* line 340: wineboot, running, has made the directory default_pfx
WinebootMkdir(p) ==
  /\ dist.pc[p] = "wineboot"
  /\ ~dist.tpl
  /\ dist' = [dist EXCEPT !.tpl = TRUE]
  /\ UNCHANGED inst

\* line 340: run_proc of wineboot returns, default_pfx filled or, when the
\* program failed or was interrupted, not; subprocess.call's result is dropped
\* (line 1425)
Wineboot(p) ==
  /\ dist.pc[p] = "wineboot"
  /\ dist.tpl
  /\ \E ok \in BOOLEAN :
       dist' = [dist EXCEPT !.whole = ok, !.built[p] = @ + 1, !.pc[p] = "wineserver"]
  /\ UNCHANGED inst

\* line 341: run_proc of wineserver -w
Wineserver(p) ==
  /\ dist.pc[p] = "wineserver"
  /\ dist' = Goto(p, "mdp_out")
  /\ UNCHANGED inst

\* init_session, line 1275: g_compatdata.setup_prefix()
SetupCall(p) ==
  /\ dist.pc[p] = "session"
  /\ Call(p)
  /\ dist' = Goto(p, "setup")

\* setup_prefix returns, or its exception ends the launcher
SetupReturn(p) ==
  /\ dist.pc[p] = "setup"
  /\ Release(p)
  /\ dist' = Goto(p, IF proc[p].err = "" THEN "run" ELSE "exited")

\* Session.run, lines 1450 and 1453: run_proc of the game
RunGame(p) ==
  /\ dist.pc[p] = "run"
  /\ dist' = Goto(p, "exited")
  /\ UNCHANGED inst

\* the launcher is in subprocess.call (run_proc, line 1425)
External(p) == dist.pc[p] \in {"wineboot", "wineserver", "run"}

InitDist ==
  /\ \E tpl, legacy \in BOOLEAN : \E fixups \in {"none", "stale"} :
       dist = DistStart(tpl, legacy, fixups)
  /\ disk = FreshDisk
  /\ env = DefaultEnv
  /\ proc = [p \in Procs |-> IdleLocals]
  /\ lock = 0
  /\ log = <<>>
  /\ epoch = [d0 |-> FreshDisk, order |-> <<>>]
  /\ used = [runs |-> 0, events |-> 0, faults |-> 0, kills |-> 0]

NextDist ==
  \/ \E p \in Procs : CleanupTest(p)
  \/ \E p \in Procs : DistAcquire(p)
  \/ \E p \in Procs : CleanupRemove(p)
  \/ \E p \in Procs : DistRelease(p)
  \/ \E p \in Procs : FixupsTest(p)
  \/ \E p \in Procs : FixupsRestore(p)
  \/ \E p \in Procs : MissingTest(p)
  \/ \E p \in Procs : MakeTest(p)
  \/ \E p \in Procs : WinebootMkdir(p)
  \/ \E p \in Procs : Wineboot(p)
  \/ \E p \in Procs : Wineserver(p)
  \/ \E p \in Procs : SetupCall(p)
  \/ \E p \in Procs : AcquireClean(p) /\ UNCHANGED dist
  \/ \E p \in Procs : Step(p) /\ UNCHANGED dist
  \/ \E p \in Procs : SetupReturn(p)
  \/ \E p \in Procs : RunGame(p)

\* launchers started together on one installation and one instance
SpecDist == InitDist /\ [][NextDist]_vars

\* what launcher p does without waiting for a lock
Launcher(p) ==
  \/ CleanupTest(p) \/ CleanupRemove(p) \/ DistRelease(p)
  \/ FixupsTest(p) \/ FixupsRestore(p)
  \/ MissingTest(p) \/ MakeTest(p) \/ WinebootMkdir(p) \/ Wineboot(p) \/ Wineserver(p)
  \/ SetupCall(p) \/ (Step(p) /\ UNCHANGED dist) \/ SetupReturn(p) \/ RunGame(p)

\* the launchers under fair scheduling: a launcher that can go on does, the
\* programs it waits for return, and a launcher that waits for a lock (FileLock
\* with timeout -1 asks again without end, lines 295 and 350) gets it when it
\* is free again and again
FairDist ==
  /\ SpecDist
  /\ \A p \in Procs :
       /\ WF_vars(Launcher(p))
       /\ SF_vars(DistAcquire(p))
       /\ SF_vars(AcquireClean(p) /\ UNCHANGED dist)

(***************************************************************************)
(* Instances that earlier releases and other builds of the runtime used    *)
(* between two runs: the user directories are then in one of the layouts   *)
(* below when setup_prefix is called.                                      *)
(***************************************************************************)
\* one uninterrupted run on a fresh instance
CleanRun(x) == RunFrom(x, FreshDisk, StartLocals(FreshDisk, NoFault)).d

\* the link an unofficial build leaves at a modern path, to the legacy path
LoopLink(old) ==
  CASE old = MYD -> Link("/compat/pfx/drive_c/users/steamuser/My Documents")
    [] old = AD -> Link("/compat/pfx/drive_c/users/steamuser/Application Data")
    [] OTHER -> Link("/compat/pfx/drive_c/users/steamuser/Local Settings/Application Data")

\* the user directories: My Documents is absent, the redirect of line 619, a
\* link to elsewhere, or a directory with the user's files; Documents is
\* absent, an empty directory, a directory that has a/ already, or the link
\* back to My Documents; My Documents BACKUP is absent, empty, or holds a file
UserLayout(old, new, backup, rest) ==
  [q \in Subtree[SU] |->
     CASE q \in {SU, LS, APPD} -> DIR
       [] q = MYD -> CASE old = "none" -> NONE
                      [] old = "link" -> Link("./Documents")
                      [] old = "wrong" -> Link("/mnt/documents")
                      [] OTHER -> DIR
       [] q \in {"drive_c/users/steamuser/My Documents/a",
                 "drive_c/users/steamuser/My Documents/b"}
            -> IF old = "dir" THEN DIR ELSE NONE
       [] q = "drive_c/users/steamuser/My Documents/f0"
            -> IF old = "dir" THEN File("save 0", FALSE) ELSE NONE
       [] q = "drive_c/users/steamuser/My Documents/a/f"
            -> IF old = "dir" THEN File("save a", TRUE) ELSE NONE
       [] q = "drive_c/users/steamuser/My Documents/b/g"
            -> IF old = "dir" THEN Link("../a/f") ELSE NONE
       [] q = DOCS -> CASE new = "none" -> NONE
                       [] new = "loop" -> LoopLink(MYD)
                       [] OTHER -> DIR
       [] q = "drive_c/users/steamuser/Documents/a" -> IF new = "full" THEN DIR ELSE NONE
       [] q = "drive_c/users/steamuser/Documents/a/f"
            -> IF new = "full" THEN File("newer save a", TRUE) ELSE NONE
       [] q = MYDB -> IF backup = "none" THEN NONE ELSE DIR
       [] q = "drive_c/users/steamuser/My Documents BACKUP/f0"
            -> IF backup = "full" THEN File("older save 0", TRUE) ELSE NONE
       [] q = AD -> IF rest = "legacy" THEN DIR ELSE Link("./AppData/Roaming")
       [] q = LSAD -> IF rest = "legacy" THEN DIR ELSE Link("../AppData/Local")
       [] q = APPR -> IF rest = "legacy" THEN LoopLink(AD) ELSE DIR
       [] q = APPL -> IF rest = "legacy" THEN LoopLink(LSAD) ELSE DIR
       [] OTHER -> NONE]

Layouts ==
  { UserLayout(old, new, backup, rest) :
      old \in {"none", "link", "wrong", "dir"}, new \in {"none", "empty", "full", "loop"},
      backup \in {"none", "empty", "full"}, rest \in {"modern", "legacy"} }

\* another build used the instance after a complete run
OtherBuild ==
  /\ disk.version.ex /\ disk.fs[SU].k = "dir"
  /\ \E u \in Layouts :
       disk' = [disk EXCEPT !.fs = [q \in Paths |-> IF q \in Subtree[SU] THEN u[q] ELSE @[q]]]
  /\ env' = env
  /\ Event

InitMig == Init /\ env = DefaultEnv

NextMig ==
  \/ Call(1) /\ UNCHANGED dist
  \/ AcquireClean(1) /\ UNCHANGED dist
  \/ Step(1) /\ UNCHANGED dist
  \/ Release(1) /\ UNCHANGED dist
  \/ OtherBuild /\ UNCHANGED dist

\* runs of setup_prefix with the instance used by another build between them
SpecMig == InitMig /\ [][NextMig]_vars

\* the runs and events of Spec, and remove_tracked_files applied to the
\* instance states they lead to
SpecOps == Init /\ [][NextOps]_vars

(***************************************************************************)
(* Properties.  log holds the last runs made with no event between them:   *)
(* for each, the environment x, the final locals l (with l.pre, the        *)
(* instance when the run took the lock) and post, the instance when it     *)
(* released it.                                                            *)
(***************************************************************************)
Runs == {log[n] : n \in 1..Len(log)}

\* the paths a manifest lists
Listed(lines) == {ln.p : ln \in Range(lines)}

\* the setups of order, run one after the other from the instance d
RECURSIVE Serial(_, _, _, _)
Serial(x, d, order, n) ==
  IF n > Len(order) THEN d
  ELSE Serial(x, RunFrom(x, d, StartLocals(d, order[n])).d, order, n + 1)

\* C1: two processes that call setup_prefix concurrently on one instance
\* never interleave their writes: at most one of them is between taking and
\* releasing prefix_lock, and once they have all returned the instance is the
\* one that running their setups one after the other, in the order in which
\* they took the lock, produces.
C1_Serialized ==
  /\ Cardinality({p \in Procs : Inside(p)}) <= 1
  /\ Quiet /\ Len(epoch.order) >= 1 => disk = Serial(env, epoch.d0, epoch.order, 1)

\* two calls were in progress together and both have returned
C1_Witness == Quiet /\ Len(epoch.order) = 2 /\ disk # epoch.d0

\* C2: two runs in a row on a fresh instance (no version file, no pfx/), the
\* template, the environment and the flags unchanged and no copy meeting a
\* permission failure: tracked_files, version and config_info are after the
\* second run what they were after the first.
C2_Idempotent ==
  Len(log) = 2 /\ log[1].l.pre = FreshDisk /\ log[1].x = log[2].x
    /\ log[1].l.fault = NoFault /\ log[2].l.fault = NoFault
  => /\ log[2].post.tracked = log[1].post.tracked
     /\ log[2].post.version = log[1].post.version
     /\ log[2].post.config = log[1].post.config

C2_Witness ==
  /\ Len(log) = 2 /\ log[1].l.pre = FreshDisk /\ log[1].x = log[2].x
  /\ log[1].l.fault = NoFault /\ log[2].l.fault = NoFault
  /\ log[1].l.err = "" /\ log[2].l.err = ""
  /\ Len(log[2].post.tracked.lines) > 0 /\ log[2].post.version.ex /\ log[2].post.config.ex
  /\ log[2].l.made # {}

\* C3: after any run that completes, from any instance state, every path the
\* manifest lists exists below pfx/.
C3_Sound ==
  \A r \in Runs : r.l.err = "" /\ ~r.l.wiped =>
    \A ln \in Range(r.post.tracked.lines) : Lexists(r.post.fs, ln.p)

\* C4: remove_tracked_files deletes only what the manifest lists (and the
\* manifest and the version file): every path of the instance that is not a
\* manifest entry is afterwards what it was before.
C4_OnlyListed ==
  \A r \in Runs : r.l.wiped =>
    \A p \in Paths : p \notin Listed(r.l.pre.tracked.lines) => r.post.fs[p] = r.l.pre.fs[p]

\* a removal that deleted listed files and left a save.dat that lies in a
\* listed directory
C4_Witness ==
  \E r \in Runs :
    /\ r.l.wiped
    /\ S32 \in Listed(r.l.pre.tracked.lines)
    /\ r.l.pre.fs["drive_c/windows/system32/save.dat"].k = "file"
    /\ r.post.fs["drive_c/windows/system32/save.dat"] = r.l.pre.fs["drive_c/windows/system32/save.dat"]
    /\ r.l.pre.fs["system.reg"].k = "file" /\ r.post.fs["system.reg"].k = "none"
    /\ ~r.post.tracked.ex /\ ~r.post.version.ex

\* a destination that exists and is not a stub
RealFile(x, fs, p) == fs[p].k \in {"file", "link"} /\ ~FileIsWineBuiltinDll(x, fs, p)

\* C5: update_builtin_libs never modifies, unlinks or replaces a destination
\* file that is real (exists and is not a stub): during the sync and at its end
\* every such file is what it was when the sync began, whatever the template
\* holds at its path.
C5_RealUntouched ==
  \A p \in Procs : proc[p].pc \in {"sy_item", "sy_copy", "sy_rec", "cfg_write"} =>
    \A q \in Paths : RealFile(env, proc[p].s0, q) => disk.fs[q] = proc[p].s0[q]

\* a sync has ended that refreshed a stub and met a real file where the
\* template holds a stub
C5_Witness ==
  \E p \in Procs :
    /\ proc[p].pc = "cfg_write"
    /\ \E q \in Paths : RealFile(env, proc[p].s0, q) /\ TemplateIsWineBuiltinDll(env, q)
    /\ \E q \in Paths : proc[p].s0[q].k # "none" /\ disk.fs[q] # proc[p].s0[q]

\* C6: a recorded tag whose (major, minor) is greater than the current tag's
\* (7.0-1) makes the upgrade step call remove_tracked_files and apply no patch.
C6_DowngradeWipes ==
  \A r \in Runs : r.l.old = [none |-> FALSE, v |-> <<"7", ".", "0", "-", "1">>] =>
    r.l.wiped /\ r.l.patched = {}

\* C7: a recorded tag that is well-formed and older than the current tag
\* (5.0-1) makes the upgrade step apply the patches whose guard it satisfies
\* (the ShellExecute-DDE rewrite), and not call remove_tracked_files.
C7_OlderPatched ==
  \A r \in Runs :
    r.l.old = [none |-> FALSE, v |-> <<"5", ".", "0", "-", "1">>] /\ r.l.pre.fs["system.reg"].k = "file"
    => "dde" \in r.l.patched /\ ~r.l.wiped

\* C8: after any sequence of runs no line appears more than once in the
\* manifest.
C8_NoDuplicates ==
  \A m, n \in 1..Len(disk.tracked.lines) :
    disk.tracked.lines[m] = disk.tracked.lines[n] => m = n

\* C9: the manifest is append-only: every path listed before a run that does
\* not perform a downgrade wipe is listed after it.
C9_AppendOnly ==
  \A r \in Runs : ~r.l.wiped =>
    Listed(r.l.pre.tracked.lines) \subseteq Listed(r.post.tracked.lines)

\* C10: the manifest is a complete ledger: when a run completes, every file,
\* link and directory it created below pfx/ is listed.
C10_Complete ==
  \A r \in Runs : r.l.err = "" => r.l.made \subseteq Listed(r.post.tracked.lines)

\* the paths of the template's walk
WalkPaths == {TemplateWalk[n].p : n \in 1..Len(TemplateWalk)}

\* what copy_pfx had created when the run r ended; pfx/, drive_c and
\* dosdevices are made before it (lines 649-654)
PopulateMade(r) ==
  {q \in WalkPaths \ {ROOT, DRC, DOSD} : r.l.pre.fs[q].k = "none" /\ r.post.fs[q].k # "none"}

\* what update_builtin_libs had created when the run r ended
SyncMade(r) == {q \in WalkPaths : r.l.s0[q].k = "none" /\ r.post.fs[q].k # "none"}

\* C11: in copy_pfx and update_builtin_libs the manifest line of a path is on
\* disk no later than the path: when the process is killed at any point of
\* either, every file or directory it created is listed in tracked_files.
C11_RecordedFirst ==
  \A r \in Runs : r.l.err = "killed" =>
    /\ r.l.pc \in {"cp_item", "cp_rec"} => PopulateMade(r) \subseteq Listed(r.post.tracked.lines)
    /\ r.l.pc \in {"sy_item", "sy_copy", "sy_rec"}
         => SyncMade(r) \subseteq Listed(r.post.tracked.lines)

\* C12: the version file is written after every patch and every population
\* step of the run has succeeded: a run that an exception or a kill ends
\* before its last step has not written the version file.
C12_VersionLast ==
  \A r \in Runs : r.l.err # "" => "version" \notin r.l.wrote

\* C13: a run on a fresh instance is killed at any step and setup is run
\* again, to completion and with no permission failure: the instance (files,
\* tracked_files, version, config_info) is the one an uninterrupted run
\* produces.
C13_SameFixedPoint ==
  Len(log) = 2 /\ log[1].l.err = "killed" /\ log[1].l.pre = FreshDisk
    /\ log[2].l.err = "" /\ log[2].l.fault = NoFault /\ log[1].l.fault = NoFault
  => log[2].post = CleanRun(log[2].x)

\* how many times the build of default_pfx was run
RECURSIVE Builds(_)
Builds(n) == IF n = 0 THEN 0 ELSE dist.built[n] + Builds(n - 1)

\* C14: default_pfx is built at most once: of the launchers that find it
\* missing and call make_default_prefix, one runs the build, holding
\* dist_lock, and the others return without building.
C14_BuiltOnce ==
  /\ Builds(NProcs) <= 1
  /\ \A p \in Procs : dist.pc[p] \in {"wineboot", "wineserver"} => dist.lock = p
  /\ \A p \in dist.called : dist.pc[p] \in {"session", "setup", "run", "exited"}
       => dist.tpl /\ Builds(NProcs) = 1

\* two launchers found default_pfx missing, both called make_default_prefix
\* and both have returned
C14_Witness ==
  /\ Cardinality(dist.called) >= 2
  /\ \A p \in dist.called : dist.pc[p] \in {"session", "setup", "run", "exited"}
  /\ \E p \in dist.called : dist.built[p] = 0

\* C15 as stated: no launcher holds dist_lock or prefix_lock while it is in
\* an external program.
C15_NoLockAcrossExternal ==
  \A p \in Procs : External(p) => dist.lock # p /\ lock # p

\* C15: no launcher holds prefix_lock while it is in an external program, and
\* dist_lock is held across the two programs that build default_pfx
\* (wineboot, wineserver -w) and across no other.
C15_LocksAndExternal ==
  \A p \in Procs :
    /\ External(p) => lock # p
    /\ External(p) /\ dist.lock = p => dist.pc[p] \in {"wineboot", "wineserver"}
    /\ dist.pc[p] \in {"wineboot", "wineserver"} => dist.lock = p

\* a launcher runs the game after its setup_prefix while another launcher
\* is inside setup_prefix, holding prefix_lock
C15_Witness ==
  \E p, q \in Procs : dist.pc[p] = "run" /\ lock = q /\ q # p /\ dist.lock = 0

\* the row's modern path is a link whose target ends with its legacy path
Looped(fs, row) == fs[row.new] = LoopLink(row.old)

\* C16: when, before migrate_user_paths, a row's modern path is a link whose
\* target ends with the row's legacy path, then when migrate_user_paths has
\* returned the modern path is no link and the legacy path is the link to the
\* row's redirect.
C16_LoopBroken ==
  \A p \in Procs : proc[p].pc = "dos_c" =>
    \A n \in 1..Len(MigrateRows) :
      Looped(proc[p].pre.fs, MigrateRows[n])
      => /\ disk.fs[MigrateRows[n].new].k # "link"
         /\ disk.fs[MigrateRows[n].old] = Link(MigrateRows[n].link)

\* the migration has returned on an instance where Documents was a link to
\* My Documents and My Documents a directory with the user's files
C16_Witness ==
  \E p \in Procs :
    /\ proc[p].pc = "dos_c"
    /\ proc[p].pre.fs[DOCS] = LoopLink(MYD)
    /\ proc[p].pre.fs[MYD].k = "dir"
    /\ disk.fs[DOCS].k = "dir"
    /\ disk.fs[MYD] = Link("./Documents")
    /\ disk.fs["drive_c/users/steamuser/Documents/a/f"].k = "file"

\* C17: when a legacy path is a real directory before a run, then after the
\* run every entry it contained is, with the same content, at the same place
\* under "<legacy path> BACKUP", whatever the instance held before, a
\* "<legacy path> BACKUP" of an earlier migration included.
C17_ContentKept ==
  \A r \in Runs : \A n \in 1..Len(MigrateRows) :
    r.l.pre.fs[MigrateRows[n].old].k = "dir" =>
      \A q \in Subtree[MigrateRows[n].old] \ {MigrateRows[n].old} :
        r.l.pre.fs[q].k # "none"
        => r.post.fs[Rebase(MigrateRows[n].old, MigrateRows[n].backup, q)] = r.l.pre.fs[q]

\* what pfx_copy leaves at the path q of the instance
Installed(x, q) ==
  IF TemplateNode(x, q).k = "link" /\ ~DllCopyMatch(q)
  THEN Link(LinkContents(TemplateNode(x, q).c))
  ELSE [TemplateResolved(x, q) EXCEPT !.w = TRUE]

\* the destinations the library section of setup_prefix writes after the sync
LibDsts(x) == {LibOps(x)[n].dst : n \in 1..Len(LibOps(x))}

SyncDue(d, x) ==
  \/ d.version # [ex |-> TRUE, v |-> CURRENT_PREFIX_VERSION]
  \/ d.config # [ex |-> TRUE, v |-> PrefixInfo(x)]

\* C19: update_builtin_libs runs in a run if and only if the version recorded
\* when the run began differs from the current tag or the stored fingerprint
\* differs from the computed one, and config_info is rewritten in exactly
\* the runs where the sync ran to its end.
C19_SyncIffChanged ==
  /\ \A p \in Procs :
       /\ proc[p].pc \in {"sy_read", "sy_item", "sy_copy", "sy_rec", "cfg_write"}
            => SyncDue(proc[p].pre, env)
       /\ proc[p].pc \in {"ver_write", "fonts_mk", "font", "st_open", "st_item", "st_copy",
                          "lib", "gamedrive"}
            => /\ proc[p].s0 # NoFs <=> SyncDue(proc[p].pre, env)
               /\ "config_info" \in proc[p].wrote <=> SyncDue(proc[p].pre, env)
  /\ \A r \in Runs : r.l.err = "" =>
       /\ r.l.s0 # NoFs <=> SyncDue(r.l.pre, r.x)
       /\ "config_info" \in r.l.wrote <=> SyncDue(r.l.pre, r.x)
       /\ r.post.config = [ex |-> TRUE, v |-> PrefixInfo(r.x)]

\* a run whose recorded version was current and whose stored fingerprint was
\* not the computed one has synced and rewritten config_info, and the run
\* after it, with nothing changed, has done neither
C19_Witness ==
  /\ Len(log) = 2
  /\ log[1].l.err = "" /\ log[2].l.err = ""
  /\ log[1].l.pre.version = [ex |-> TRUE, v |-> CURRENT_PREFIX_VERSION]
  /\ log[1].l.pre.config.ex /\ log[1].l.pre.config.v # PrefixInfo(log[1].x)
  /\ "config_info" \in log[1].l.wrote /\ log[1].l.s0 # NoFs
  /\ "config_info" \notin log[2].l.wrote /\ log[2].l.s0 = NoFs

\* the try_copy call the process p is about to make, if it is about to make one
AtTryCopy(p) ==
  \/ proc[p].pc = "st_copy"
  \/ /\ proc[p].pc = "lib"
     /\ proc[p].i <= Len(LibOps(env))
     /\ LibOps(env)[proc[p].i].op = "try_copy"

TryCopyArgs(p) ==
  IF proc[p].pc = "st_copy"
  THEN [src |-> ExtNode(env, SteamCopies[proc[p].i].src), dst |-> SteamCopies[proc[p].i].dst,
        optional |-> FALSE]
  ELSE [src |-> LibSrc(env, LibOps(env)[proc[p].i].src), dst |-> LibOps(env)[proc[p].i].dst,
        optional |-> LibOps(env)[proc[p].i].optional]

\* the call meets the permission failure of kind k: removing the old
\* destination ("rm"), or creating the new one from a source that exists
MeetsFailure(p, k) ==
  /\ FaultKind(proc[p]) = k
  /\ ~Isdir(env, disk.fs, TryCopyArgs(p).dst)
  /\ IF k = "rm" THEN Lexists(disk.fs, TryCopyArgs(p).dst)
     ELSE TryCopyArgs(p).src.k = "file" /\ CanCreate(disk.fs, TryCopyArgs(p).dst)

\* C20: a try_copy that meets a permission failure with EPERM returns
\* normally, one that meets another permission failure raises PermissionError;
\* with a missing source it returns normally when optional=True and raises
\* FileNotFoundError otherwise.
C20_ErrorTaxonomy ==
  [][\A p \in Procs : AtTryCopy(p) /\ proc'[p] # proc[p] =>
       /\ MeetsFailure(p, "rm") \/ MeetsFailure(p, "open") => proc'[p].err = ""
       /\ MeetsFailure(p, "eacces") => proc'[p].err = "PermissionError"
       /\ TryCopyArgs(p).src.k # "file" /\ ~MeetsFailure(p, "rm") =>
            proc'[p].err = IF TryCopyArgs(p).optional THEN "" ELSE "FileNotFoundError"]_vars

\* the driver library _nvngx.dll was missing in two runs: the first skipped
\* it and ended normally, the second met EACCES at a later copy and raised
C20_Witness ==
  /\ Len(log) = 2
  /\ log[1].x.nvidia = "partial" /\ log[2].x.nvidia = "partial"
  /\ log[1].l.err = "" /\ log[1].l.fault = NoFault
  /\ ~Lexists(log[1].post.fs, "drive_c/windows/system32/_nvngx.dll")
  /\ log[2].l.fault.kind = "eacces" /\ log[2].l.err = "PermissionError"

\* C21: setup_prefix never aborts: whatever the instance and the runtime
\* installation hold when it starts, a run that meets no permission failure
\* ends without an exception leaving it.
C21_NeverAborts ==
  \A r \in Runs : r.l.fault = NoFault /\ ~r.l.wiped => r.l.err = ""

\* the manifest lines that name a directory, and those that name a file
ListedDirs(lines) == {ln.p : ln \in {m \in Range(lines) : m.slash}}
ListedFiles(lines) == {ln.p : ln \in {m \in Range(lines) : ~m.slash}}

\* the tree below the directory q holds listed entries only, each a directory
\* or a file or link that resolves
OwnedTree(x, d, q) ==
  /\ q \in ListedDirs(d.tracked.lines) /\ d.fs[q].k = "dir"
  /\ \A c \in Subtree[q] : d.fs[c].k # "none" =>
       \/ c \in ListedDirs(d.tracked.lines) /\ d.fs[c].k = "dir"
       \/ c \in ListedFiles(d.tracked.lines) /\ d.fs[c].k \in {"file", "link"}
            /\ Exists(x, d.fs, c)

\* C23: remove_tracked_files attempts the listed directories deepest first, so
\* that a listed directory whose tree holds listed entries only is removed with
\* all of its tree.
C23_TreeRemoved ==
  \A r \in Runs : r.l.wiped /\ r.l.pre.tracked.ex =>
    \A q \in Paths : OwnedTree(r.x, r.l.pre, q) => r.post.fs[q].k = "none"

\* the directory q holds nothing once the listed files and links are removed
EmptiedLeaf(x, d, q) ==
  /\ q \in ListedDirs(d.tracked.lines) /\ d.fs[q].k = "dir"
  /\ \A c \in Children[q] : d.fs[c].k # "none" =>
       c \in ListedFiles(d.tracked.lines) /\ d.fs[c].k \in {"file", "link"}
         /\ Exists(x, d.fs, c)

\* C24: in remove_tracked_files an os.rmdir that fails on a directory that is
\* not empty does not end the pass: every listed directory that the removal of
\* the listed files emptied is removed, wherever it stands in the manifest, and
\* afterwards neither the manifest nor the version file exists.
C24_PassCompletes ==
  \A r \in Runs : r.l.wiped /\ r.l.pre.tracked.ex =>
    /\ \A q \in Paths : EmptiedLeaf(r.x, r.l.pre, q) => r.post.fs[q].k = "none"
    /\ ~r.post.tracked.ex /\ ~r.post.version.ex

\* drive_c/windows, listed before its subdirectories, was not empty and stays,
\* and system32 and syswow64, listed after it, are removed with the manifest
\* and the version file
C24_Witness ==
  \E r \in Runs :
    /\ r.l.wiped /\ r.l.pre.tracked.ex /\ r.l.pre.version.ex
    /\ {WIN, S32, WOW} \subseteq ListedDirs(r.l.pre.tracked.lines)
    /\ r.l.pre.fs[S32].k = "dir" /\ r.l.pre.fs[WOW].k = "dir"
    /\ r.post.fs[WIN].k = "dir" /\ r.post.fs[S32].k = "none" /\ r.post.fs[WOW].k = "none"
    /\ ~r.post.tracked.ex /\ ~r.post.version.ex

\* C25: after remove_tracked_files no manifest entry that was a regular file
\* or a symlink is left in the instance, a symlink whose target is gone
\* included.
C25_FilesGone ==
  \A r \in Runs : r.l.wiped /\ r.l.pre.tracked.ex =>
    \A q \in ListedFiles(r.l.pre.tracked.lines) :
      r.l.pre.fs[q].k \in {"file", "link"} => r.post.fs[q].k = "none"

\* C22: a complete setup_prefix run leaves every file that the user or an
\* application put into the instance as it was, also at a path that the
\* engine provisions itself.
C22_UserFilesKept ==
  \A r \in Runs : r.l.err = "" /\ ~r.l.wiped =>
    \A q \in Paths : r.l.pre.fs[q] = File("user data", TRUE) => r.post.fs[q] = r.l.pre.fs[q]

\* a tag of the form major.minor-revision, all three numbers
WellFormed(v) ==
  Len(v) = 5 /\ v[2] = "." /\ v[4] = "-" /\ {v[1], v[3], v[5]} \subseteq DOMAIN Digits

\* the tag starts with the (major, minor) of w
SameMajorMinor(v, w) == Len(v) >= 3 /\ v[1] = w[1] /\ v[2] = "." /\ v[3] = w[3]

\* the (major, minor) of v is greater than that of w
Newer(v, w) ==
  \/ Digits[v[1]] > Digits[w[1]]
  \/ Digits[v[1]] = Digits[w[1]] /\ Digits[v[3]] > Digits[w[3]]

\* C26: a run on an instance whose recorded tag is of a newer release and that
\* has no manifest file still performs the wipe: the upgrade step synthesizes
\* the manifest and calls remove_tracked_files.
C26_WipeWithoutManifest ==
  \A r \in Runs :
    ~r.l.old.none /\ WellFormed(r.l.old.v) /\ Newer(r.l.old.v, CURRENT_PREFIX_VERSION)
      /\ ~r.l.pre.tracked.ex
    => r.l.wiped

\* the recorded tag is absent, the current tag, or not major.minor-revision
Benign(old) == old.none \/ old.v = CURRENT_PREFIX_VERSION \/ ~WellFormed(old.v)

UpgradePcs ==
  { "up_seed", "up_wipe", "up_37", "up_net", "up_xinput", "xi_old", "xi_mv", "up_dde",
    "dde_old", "dde_mv", "up_stale" }

\* C27: with the recorded tag absent, equal to the current tag or malformed,
\* upgrade_pfx enters no wipe and no patch and returns with the instance as it
\* was, and setup goes on to the population.
C27_NothingChanged ==
  \A p \in Procs :
    /\ proc[p].pc \in UpgradePcs => ~Benign(proc[p].old)
    /\ proc[p].pc = "mkpfx" /\ Benign(proc[p].old) =>
         disk = proc[p].pre /\ proc[p].patched = {} /\ ~proc[p].wiped /\ proc[p].err = ""

\* upgrade_pfx has returned for a tag with "-" that is not major.minor-revision
C27_Witness ==
  \E p \in Procs :
    /\ proc[p].pc = "mkpfx"
    /\ proc[p].old = [none |-> FALSE, v |-> <<"6", "-", "1">>]
    /\ disk = proc[p].pre /\ disk.fs["system.reg"].k = "file"

\* release tags major.minor-revision
Releases ==
  { <<a, ".", b, "-", c>> : a \in {"5", "6", "7"}, b \in {"0", "3"}, c \in {"1", "3"} }

WipeDecided(old, cur) == UpgradeDecision([none |-> FALSE, v |-> old], cur) = "wipe"

\* C28: whether upgrade_pfx wipes depends on the (major, minor) of the two tags
\* only: two recorded tags with the same (major, minor) are decided alike, a
\* recorded tag with the (major, minor) of the current tag is never wiped, and
\* no run wipes an instance whose recorded tag has the current (major, minor),
\* whatever its revision.
C28_MajorMinorOnly ==
  /\ \A cur \in Releases, old \in Releases :
       /\ SameMajorMinor(old, cur) => ~WipeDecided(old, cur)
       /\ \A other \in Releases :
            SameMajorMinor(old, other) => (WipeDecided(old, cur) <=> WipeDecided(other, cur))
  /\ \A r \in Runs :
       ~r.l.old.none /\ SameMajorMinor(r.l.old.v, CURRENT_PREFIX_VERSION) =>
         /\ ~r.l.wiped
         /\ \A q \in ListedFiles(r.l.pre.tracked.lines) :
              r.l.pre.fs[q].k # "none" => r.post.fs[q].k # "none"

\* a run on an instance that recorded a higher revision of the current
\* (major, minor) has ended with the manifest and the listed files in place
C28_Witness ==
  \E r \in Runs :
    /\ r.l.old = [none |-> FALSE, v |-> <<"6", ".", "20", "-", "GE", "-", "2">>]
    /\ r.l.err = "" /\ ~r.l.wiped
    /\ r.l.pre.tracked.ex /\ r.post.tracked.ex
    /\ r.post.fs["system.reg"].k = "file"
    /\ \E old \in Releases, cur \in Releases : WipeDecided(old, cur)

\* the lines system.reg holds in the instance d
RegOf(d) == d.fs["system.reg"].t

Original(l) == RegOf(l.pre)
Rewritten(l) == {XinputRewrite(Original(l)), DdeRewrite(XinputRewrite(Original(l)))}

TemplateFiles == {TemplateWalk[n].p : n \in {m \in 1..Len(TemplateWalk) : TemplateWalk[m].t = "file"}}

\* C31: when update_builtin_libs has walked the template (the statement after
\* it is the write of config_info) and no copy met a failure, every file of
\* the template has a counterpart in the instance.
C31_EveryTemplateFile ==
  \A p \in Procs : proc[p].pc = "cfg_write" /\ proc[p].fault = NoFault =>
    \A f \in TemplateFiles : Lexists(disk.fs, f)

\* the template file the sync has just copied in process p, at line 574
JustSynced(p) == TemplateWalk[proc[p].i].p

\* an absolute path with no "." or ".." component, into the builtin libraries
AbsoluteNormalized(t) == t \in AbsBuiltin

\* C32: when the sync has created or refreshed a destination from a template
\* stub and no copy met a failure, the destination is a symlink exactly when the
\* template entry is a symlink and its name matches no copy-policy glob; the
\* target of that link is absolute and normalized when the template's link
\* points into a builtin-library directory; and when the name matches a glob the
\* destination is a regular file with the content the template entry resolves to.
C32_CopyPolicy ==
  \A p \in Procs :
    proc[p].pc = "sy_rec" /\ proc[p].fault = NoFault /\ TemplateWalk[proc[p].i].t = "file" =>
      LET f == JustSynced(p)
          tn == TemplateNode(env, f)
      IN /\ disk.fs[f].k = "link" <=> (tn.k = "link" /\ ~DllCopyMatch(f))
         /\ disk.fs[f].k = "link" /\ DirnameIsBuiltinDir(tn.c) => AbsoluteNormalized(disk.fs[f].c)
         /\ DllCopyMatch(f) =>
              /\ disk.fs[f].k = "file"
              /\ disk.fs[f].c = TemplateResolved(env, f).c

\* the sync has just made a symlink from a template symlink whose name matches
\* no glob
C32_Witness ==
  \E p \in Procs :
    /\ proc[p].pc = "sy_rec" /\ proc[p].fault = NoFault
    /\ JustSynced(p) = "drive_c/windows/system32/kernel32.dll"
    /\ TemplateNode(env, JustSynced(p)).k = "link"
    /\ disk.fs[JustSynced(p)].k = "link"
    /\ AbsoluteNormalized(disk.fs[JustSynced(p)].c)

\* C33: when migrate_user_paths has returned, whatever a row's legacy path was
\* before (absent, a directory, the link to the redirect, a link to another
\* target), it is the symlink whose target is the row's redirect; and when the
\* run before this one ended without an error and nothing happened since, the
\* migration has left the user's directories as that run left them.
C33_LegacyIsRedirect ==
  \A p \in Procs : proc[p].pc = "dos_c" =>
    /\ \A n \in 1..Len(MigrateRows) : disk.fs[MigrateRows[n].old] = Link(MigrateRows[n].link)
    /\ IF log = <<>> THEN TRUE
       ELSE log[Len(log)].l.err = "" =>
              \A q \in Subtree[SU] : disk.fs[q] = log[Len(log)].post.fs[q]

\* the migration has returned on an instance where My Documents was a link to
\* another target, and again in the run after that one
C33_Witness ==
  \E p \in Procs :
    /\ proc[p].pc = "dos_c"
    /\ Len(log) = 1 /\ log[1].l.err = ""
    /\ log[1].l.pre.fs[MYD] = Link("/mnt/documents")
    /\ disk.fs[MYD] = Link("./Documents")

\* the subdirectories the model holds in the legacy path My Documents
LegacySubdirs == {"drive_c/users/steamuser/My Documents/a", "drive_c/users/steamuser/My Documents/b"}

\* C34: when merge_user_dir has returned for My Documents, every subdirectory
\* of the legacy path that was absent under the destination before the run
\* has its files and links copied to the destination, a subdirectory visited
\* after a sibling that already existed at the destination included.
C34_AbsentSubdirCopied ==
  \A p \in Procs :
    proc[p].pc = "mig_rename" /\ MigrateRows[proc[p].i].old = MYD =>
      \A s \in LegacySubdirs :
        proc[p].pre.fs[s].k = "dir" /\ proc[p].pre.fs[Rebase(MYD, DOCS, s)].k = "none" =>
          \A c \in Children[s] :
            proc[p].pre.fs[c].k \in {"file", "link"} =>
              disk.fs[Rebase(MYD, DOCS, c)].k = proc[p].pre.fs[c].k

\* the places where a launcher waits for dist_lock
DistWaits == {"cl_lock", "fx_lock", "mdp_lock"}

\* launcher p waits for a lock, has one
Waiting(p) == proc[p].pc = "lock" \/ dist.pc[p] \in DistWaits
Holding(p) == lock = p \/ dist.lock = p

\* C35: a launcher that waits for prefix_lock or for dist_lock does nothing
\* else until it has that lock (no timeout, no failure), and under fair
\* scheduling it is again and again at a point where it neither waits for a
\* lock nor has one: the lock it waited for came, and it gave it back.
C35_WaitsThenAcquires ==
  /\ [][\A p \in Procs :
          /\ proc[p].pc = "lock" => proc'[p].pc = "lock" \/ lock' = p
          /\ dist.pc[p] \in DistWaits => dist'.pc[p] = dist.pc[p] \/ dist'.lock = p]_vars
  /\ \A p \in Procs : []<>(~Waiting(p) /\ ~Holding(p))

\* a launcher waits for dist_lock while another builds default_pfx, and a
\* launcher waits for prefix_lock while another is inside setup_prefix
C35_Witness ==
  \/ \E p, q \in Procs : p # q /\ dist.pc[p] = "mdp_lock" /\ dist.lock = q /\ dist.pc[q] = "wineboot"
  \/ \E p, q \in Procs : p # q /\ proc[p].pc = "lock" /\ lock = q /\ proc[q].pc = "sy_item"

\* a build of default_pfx is running
Building == \E q \in Procs : dist.pc[q] \in {"wineboot", "wineserver"}

\* launcher p is at a test of missing_default_prefix: line 1487, or line 335
\* under dist_lock
AtMissingTest(p) == dist.pc[p] \in {"mdp_test", "mdp_in"}

\* C36: when a launcher is at the test for default_pfx, no build is running
\* and default_pfx is not whole (a build failed or was interrupted after it
\* made the directory), the test answers that default_pfx is missing, so that
\* the build is run again.
C36_IncompleteIsMissing ==
  \A p \in Procs :
    AtMissingTest(p) /\ ~Building /\ ~dist.whole => MissingDefaultPrefix(dist.tpl)

\* C37: no launcher has dist_lock and prefix_lock at the same time, and none
\* waits for one of them while it has the other.
C37_OneLockAtATime ==
  \A p \in Procs :
    /\ ~(dist.lock = p /\ lock = p)
    /\ dist.pc[p] \in DistWaits => lock # p
    /\ proc[p].pc = "lock" => dist.lock # p

\* one launcher has dist_lock while another has prefix_lock
C37_Witness == \E p, q \in Procs : p # q /\ dist.lock = p /\ lock = q

\* the statements of copy_pfx and update_builtin_libs that walk default_pfx
TemplateReaders == {"cp_item", "cp_rec", "sy_item", "sy_copy", "sy_rec"}

\* C38: while a launcher is in the build of default_pfx (wineboot has not
\* returned), no other launcher is in copy_pfx or update_builtin_libs.
C38_NoReadWhileBuilding ==
  \A p, q \in Procs :
    p # q /\ dist.pc[q] = "wineboot" => proc[p].pc \notin TemplateReaders

\* C39: after every run of setup_prefix that returned, the version file
\* holds the current tag, and config_info holds the fingerprint that run
\* computed, which is the fingerprint of the environment it ran in.
C39_RecordsCurrent ==
  \A r \in Runs : r.l.err = "" =>
    /\ r.post.version = [ex |-> TRUE, v |-> CURRENT_PREFIX_VERSION]
    /\ r.l.info = PrefixInfo(r.x)
    /\ r.post.config = [ex |-> TRUE, v |-> r.l.info]

\* a run has returned on an instance that recorded another tag when it began
C39_Witness ==
  \E r \in Runs :
    /\ r.l.err = ""
    /\ r.l.pre.version.ex /\ r.l.pre.version.v # CURRENT_PREFIX_VERSION
    /\ r.l.pre.config.ex
    /\ r.post.version.v = CURRENT_PREFIX_VERSION
    /\ r.post.config.v = r.l.info

\* the try_copy call p is about to make fails in a way try_copy tolerates: a
\* permission failure with EPERM, or a missing source with optional=True
ToleratedFailure(p) ==
  \/ MeetsFailure(p, "rm")
  \/ MeetsFailure(p, "open")
  \/ TryCopyArgs(p).src.k # "file" /\ TryCopyArgs(p).optional

\* C40: a try_copy that fails in a tolerated way leaves its destination as
\* it was: what the instance held there before the call is there after it.
C40_FailureKeepsDestination ==
  [][\A p \in Procs : AtTryCopy(p) /\ proc'[p] # proc[p] /\ ToleratedFailure(p) =>
       disk'.fs[TryCopyArgs(p).dst] = disk.fs[TryCopyArgs(p).dst]]_vars

=============================================================================
